---- MODULE Spec2Model ----
(***************************************************************************)
(* A model of the journal-metadata pipeline: the resilient HTTP client     *)
(* (src/src/utils_minimal.py http_get, src/src/utils.py do_get), the       *)
(* fallback enrichment chain and the resumable enrichment driver           *)
(* (src/src/pipeline.py Pipeline._enrich_paper, _enrich_file,              *)
(* enrich_jel_codes), the legacy listing fetcher                           *)
(* (src/src/fetch_openalex.py fetch_and_save, main), the paginated fetcher *)
(* (Pipeline._fetch_year) and the assembly with its deduplication          *)
(* (Pipeline.build_dataset, _paper_to_row, _deduplicate,                   *)
(* src/src/utils.py deduplicate_papers), the whole run                     *)
(* (Pipeline.__init__, fetch_papers, run_full_pipeline) and the text       *)
(* helpers of src/src/utils_minimal.py.                                    *)
(*                                                                         *)
(* Specifications:                                                         *)
(*   Spec        the driver over one raw file; the process may be killed   *)
(*               at any point outside a write                              *)
(*   SpecCrash   Spec plus a kill in the middle of a write (a torn line)   *)
(*   SpecChain   one work, every configured strategy order                 *)
(*   SpecHttp    http_get on every bounded sequence of request outcomes    *)
(*   SpecLegacy  fetch_openalex.main over journals x years                 *)
(*   SpecPages   _fetch_year over every bounded chain of listing pages     *)
(*   SpecDedup   the deduplication on every bounded table of rows          *)
(*   SpecAssemble build_dataset over bounded sets of enriched files        *)
(*   SpecLines   the driver, and build_dataset, on files with unreadable   *)
(*               lines                                                     *)
(*   SpecDoi     normalize_doi on a DOI and on a variant of its writing    *)
(*   SpecAbstract reconstruct_abstract on bounded inverted indexes         *)
(*   SpecExtract extract_jel_from_text on bounded texts                    *)
(*   SpecPath    safe_cache_path and the cache file written under it       *)
(*   SpecBatch   run_full_pipeline over journals x years, run and re-run   *)
(*   SpecFilter  the listing filter of both fetchers, every kind of id     *)
(*   SpecRefetch both fetchers started again on the same data directory    *)
(*   SpecConfig  run_full_pipeline with one configuration key missing      *)
(*   SpecLabel   label_jel_codes on bounded lists of codes, reordered      *)
(*   SpecTwin    the driver alone, and two driver processes on one file    *)
(*   SpecShape   the driver on raw files with records that are no objects  *)
(*   SpecMulti   enrich_jel_multi.extract_jel_for_paper on every work      *)
(*   SpecPagesLive SpecPages with the fetcher's steps weakly fair          *)
(***************************************************************************)
EXTENDS Integers, Sequences, FiniteSets, TLC

VARIABLES
    \* ---- files and configuration (durable state)
    sources,        \* config['jel_enrichment']['sources']
    raw,            \* the raw JSONL file: a sequence of lines
    enriched,       \* the enriched JSONL file: its newline-terminated lines
    tail,           \* bytes of the enriched file after its last newline
    enrichedExists, \* output_file.exists()
    cache,          \* the cache directory: cache key -> payload text
    \* ---- the driver process (volatile state)
    pc,             \* where the driver is
    papers,         \* _enrich_file: papers
    already_done,   \* _enrich_file: already_done
    cur,            \* _enrich_file: number of papers of this file handled
    srcPos,         \* _enrich_paper: position of the for loop in sources
    out,            \* _enrich_paper: the paper being returned
    attempted,      \* the strategy calls made for the current paper
    twin,           \* the volatile state of a second driver process, if any
    \* ---- http_get called alone
    hIn,            \* its arguments: retries and the outcome of each request
    hOut,           \* what it returned and did
    \* ---- fetch_openalex.main
    lpc,            \* where the legacy fetcher is
    lJob,           \* index of the (journal, year) being fetched
    lPage,          \* number of pages of the current job already written
    lFiles,         \* pages written to each job's output file
    \* ---- Pipeline._fetch_year
    upstream,       \* the listing the API serves: its pages in order
    blocked,        \* respect_robots_txt and robots.txt disallows the URL
    max_retries,    \* config['scraping']['max_retries']
    ypc,            \* where _fetch_year is
    cursor,         \* _fetch_year: cursor
    yPapers,        \* _fetch_year: papers
    pageLog,        \* the page requests made, each with its response
    \* ---- Pipeline.build_dataset
    files,          \* the enriched files of the raw directory
    input,          \* the records in the order the loops encounter them
    rows,           \* build_dataset: rows
    df,             \* build_dataset: df after _deduplicate
    apc,            \* where build_dataset is
    \* ---- a utility function called alone
    uIn,            \* the function and the argument of each call of it
    uOut,           \* what each call returned, in the order of the calls
    \* ---- Pipeline.run_full_pipeline over the configured journals and years
    bCfg,           \* the configuration: source ids, and the key it lacks
    bWorld,         \* what fetching and enriching each journal-year meets
    bpc,            \* where the run is
    bJob,           \* fetch_papers: index of the (journal, year) at hand
    bFiles,         \* the raw and the enriched file of each (journal, year)
    bLog,           \* what the current run did, step by step
    bRun,           \* number of the current run
    bStart          \* the raw files as the current run found them

fileVars   == <<sources, raw, enriched, tail, enrichedExists, cache>>
driverVars == <<pc, papers, already_done, cur, srcPos, out, attempted,
                twin>>
httpVars   == <<hIn, hOut>>
legacyVars == <<lpc, lJob, lPage, lFiles>>
pageVars   == <<upstream, blocked, max_retries, ypc, cursor, yPapers, pageLog>>
asmVars    == <<files, input, rows, df, apc>>
utilVars   == <<uIn, uOut>>
batchVars  == <<bCfg, bWorld, bpc, bJob, bFiles, bLog, bRun, bStart>>
vars       == <<fileVars, driverVars, httpVars, legacyVars, pageVars, asmVars,
                utilVars, batchVars>>

----------------------------------------------------------------------------
(* Bounds of the model *)

\* longest raw file, in lines
MaxRaw == 3
\* longest configured strategy list explored by SpecChain
MaxSources == 4
\* largest retries argument given to http_get in SpecHttp
MaxRetries == 3
\* journals x years of the legacy fetcher's batch
MaxJobs == 4
\* longest listing, in pages
MaxPages == 3
\* most fragments of torn writes at the end of the enriched file
MaxTorn == 1
\* most rows of a table given to the deduplication
MaxRows == 3
\* most enriched files of the raw directory
MaxFiles == 2
\* longest enriched file read by the assembly, in lines
MaxLines == 2
\* pieces of a DOI string given to normalize_doi
MaxPieces == 2
\* positions of an abstract's inverted index
MaxWords == 3
\* characters of a text given to extract_jel_from_text
MaxText == 5
\* characters of a key given to safe_cache_path
MaxKey == 2
\* runs of the pipeline over the same data directory
MaxRuns == 2
\* codes in a list given to label_jel_codes
MaxCodes == 3

(* Program constants *)

\* retries=2 of every http_get of the chain
ChainRetries == 2
\* stop_after_attempt(5)
DoGetAttempts == 5

----------------------------------------------------------------------------
(* Text: a sequence of one-character strings *)

UpperAlphabet ==
    <<"A", "B", "C", "D", "E", "F", "G", "H", "I", "J", "K", "L", "M",
      "N", "O", "P", "Q", "R", "S", "T", "U", "V", "W", "X", "Y", "Z">>
LowerAlphabet ==
    <<"a", "b", "c", "d", "e", "f", "g", "h", "i", "j", "k", "l", "m",
      "n", "o", "p", "q", "r", "s", "t", "u", "v", "w", "x", "y", "z">>

UpperLetters == {UpperAlphabet[i] : i \in 1..26}
LowerLetters == {LowerAlphabet[i] : i \in 1..26}
Digits       == {"0", "1", "2", "3", "4", "5", "6", "7", "8", "9"}

\* the place of a letter in its alphabet
IndexIn(alphabet, c) == CHOOSE i \in 1..26 : alphabet[i] = c

\* str.upper() on one character
UpperChar(c) ==
    IF c \in LowerLetters THEN UpperAlphabet[IndexIn(LowerAlphabet, c)] ELSE c

Upper(text) == [i \in 1..Len(text) |-> UpperChar(text[i])]

RECURSIVE LStrip(_)
LStrip(text) ==
    IF text # <<>> /\ Head(text) = " " THEN LStrip(Tail(text)) ELSE text

RECURSIVE RStrip(_)
RStrip(text) ==
    IF text # <<>> /\ text[Len(text)] = " "
    THEN RStrip(SubSeq(text, 1, Len(text) - 1)) ELSE text

\* str.strip()
Strip(text) == RStrip(LStrip(text))

\* \w of the regular expression
IsWordChar(c) == c \in UpperLetters \cup LowerLetters \cup Digits \cup {"_"}

\* \b between positions i-1 and i of text (1-based; i may be Len(text)+1)
WordBoundary(text, i) ==
    LET before == i > 1 /\ IsWordChar(text[i - 1])
        after  == i <= Len(text) /\ IsWordChar(text[i])
    IN  before # after

\* a match that may end inside a longer run of digits
MatchAt_open(text, i) ==
    IF ~ (i <= Len(text) /\ WordBoundary(text, i) /\ text[i] \in UpperLetters)
    THEN 0
    ELSE IF i + 2 <= Len(text) /\ text[i + 1] \in Digits /\ text[i + 2] \in Digits
    THEN 3
    ELSE IF i + 1 <= Len(text) /\ text[i + 1] \in Digits
    THEN 2
    ELSE 0

\* length of the match of \b([A-Z]\d{1,2})\b at position i, 0 when none;
\* \d{1,2} is greedy and backs off to one digit
MatchAt(text, i) ==
    IF ~ (i <= Len(text) /\ WordBoundary(text, i) /\ text[i] \in UpperLetters)
    THEN 0
    ELSE IF /\ i + 2 <= Len(text)
            /\ text[i + 1] \in Digits /\ text[i + 2] \in Digits
            /\ WordBoundary(text, i + 3)
    THEN 3
    ELSE IF /\ i + 1 <= Len(text)
            /\ text[i + 1] \in Digits
            /\ WordBoundary(text, i + 2)
    THEN 2
    ELSE 0

RECURSIVE FindAll(_, _)
\* pattern.findall: the matches from position i on, left to right
FindAll(text, i) ==
    IF i > Len(text) THEN <<>>
    ELSE LET n == MatchAt(text, i)
         IN  IF n = 0 THEN FindAll(text, i + 1)
             ELSE <<SubSeq(text, i, i + n - 1)>> \o FindAll(text, i + n)

\* a loop that keeps every match
Uniques_all(found, acc) == acc \o found

RECURSIVE Uniques(_, _)
\* the loop over found: keep the first occurrence of each match
Uniques(found, acc) ==
    IF found = <<>> THEN acc
    ELSE Uniques(Tail(found),
                 IF \E k \in 1..Len(acc) : acc[k] = Head(found)
                 THEN acc ELSE Append(acc, Head(found)))

extract_jel_from_text(text) ==
    IF text = <<>> THEN <<>> ELSE Uniques(FindAll(Upper(text), 1), <<>>)

----------------------------------------------------------------------------
(* http_get: the outcome of request i is oracle[i] (TRUE: a 2xx response, *)
(* FALSE: a requests.RequestException).  resp is the number of the request *)
(* whose response is returned, 0 for None.                                 *)

Oracles(n) == [1..n -> BOOLEAN]

\* a loop that sleeps after its last failure too
RetryAfterFailure_always(attempt, retries) == TRUE

\* one more request is made after `attempt' failed
RetryAfterFailure(attempt, retries) == attempt # retries

\* a loop body that does not return the response
Succeeded_never(oracle, attempt) == FALSE

\* session.get returned and raise_for_status passed: return resp
Succeeded(oracle, attempt) == oracle[attempt]

RECURSIVE HttpLoop(_, _, _, _, _, _)
HttpLoop(oracle, retries, attempt, delay, nreq, waits) ==
    IF attempt > retries
    THEN [resp |-> 0, nreq |-> nreq, waits |-> waits]
    ELSE IF Succeeded(oracle, attempt)
    THEN [resp |-> attempt, nreq |-> nreq + 1, waits |-> waits]
    ELSE IF ~ RetryAfterFailure(attempt, retries)
    THEN [resp |-> 0, nreq |-> nreq + 1, waits |-> waits]
    ELSE HttpLoop(oracle, retries, attempt + 1, delay * 2, nreq + 1,
                  Append(waits, delay))

http_get(oracle, retries) == HttpLoop(oracle, retries, 1, 1, 0, <<>>)

(* do_get: tenacity calls the function again after a RequestException, up *)
(* to stop_after_attempt(5) calls, and then raises RetryError.            *)

RECURSIVE DoGetLoop(_, _)
DoGetLoop(oracle, attempt) ==
    IF oracle[attempt]
    THEN [raised |-> FALSE, resp |-> attempt, nreq |-> attempt]
    ELSE IF attempt >= DoGetAttempts
    THEN [raised |-> TRUE, resp |-> 0, nreq |-> attempt]
    ELSE DoGetLoop(oracle, attempt + 1)

do_get(oracle) == DoGetLoop(oracle, 1)

----------------------------------------------------------------------------
(* The enrichment strategies.  A work is [id, doi, oid]: doi says whether  *)
(* normalize_doi gave a non-empty DOI, oid whether the work has an id.     *)
(* `up' is what the upstream service answers to a successful request:      *)
(* [json |-> the body parses as JSON, text |-> the body].                  *)

KnownSources == {"aea_page", "crossref", "openalex", "ideas_repec"}
JsonSources  == {"crossref", "openalex"}

CodesText(source) ==
    CASE source = "aea_page" -> <<"A", "1">>
      [] source = "crossref" -> <<"c", "2", ",", "C", "2">>
      [] source = "openalex" -> <<"O", "3", "3">>
      [] OTHER               -> <<"I", "4", " ", "D", "2">>

NoCodesText == <<"D", "2", "a">>

Upstream(source) ==
    {[json |-> TRUE, text |-> CodesText(source)],
     [json |-> TRUE, text |-> NoCodesText]}
    \cup (IF source \in JsonSources
          THEN {[json |-> FALSE, text |-> NoCodesText]} ELSE {})

EmptyCache == [k \in {} |-> <<>>]

\* a store that keeps nothing but the entry written last
CachePut_alone(c, key, text) == [k \in {key} |-> text]

\* cache_file.write_text
CachePut(c, key, text) ==
    [k \in DOMAIN c \cup {key} |-> IF k = key THEN text ELSE c[k]]

\* safe_cache_path(...) of each caching strategy: the entry of its target
CacheKey(source, paper) ==
    CASE source = "aea_page" -> <<"aea", paper.id>>
      [] source = "crossref" -> <<"crossref", paper.id>>
      [] OTHER               -> <<"openalex", paper.id>>

\* None
NoResult == [found |-> FALSE, jel_codes |-> <<>>, source |-> ""]

\* the tag _fetch_jel_from_ideas puts in 'source'
IdeasTag == "ideas"

\* the end of every strategy: the dict when codes were found, else None
CodesOrNone(text, tag) ==
    LET jels == extract_jel_from_text(text)
    IN  IF jels # <<>>
        THEN [found |-> TRUE, jel_codes |-> jels, source |-> tag]
        ELSE NoResult

\* `checked': the strategy began with cache_file.exists()
Returned(res, c, nreq) ==
    [res |-> res, cache |-> c, nreq |-> nreq, raised |-> FALSE,
     checked |-> TRUE]

Raised(c, nreq) ==
    [res |-> NoResult, cache |-> c, nreq |-> nreq, raised |-> TRUE,
     checked |-> TRUE]

\* a strategy that has no cache_file: it goes to the network at once
WithoutCacheCheck(r) == [r EXCEPT !.checked = FALSE]

fetch_jel_from_aea(paper, c, oracle, up) ==
    LET key == CacheKey("aea_page", paper)
    IN  IF key \in DOMAIN c
        THEN Returned(CodesOrNone(c[key], "aea_page"), c, 0)
        ELSE LET h == http_get(oracle, ChainRetries)
             IN  IF h.resp = 0
                 THEN Returned(NoResult, c, h.nreq)
                 ELSE Returned(CodesOrNone(up.text, "aea_page"),
                               CachePut(c, key, up.text), h.nreq)

fetch_jel_from_crossref(paper, c, oracle, up) ==
    LET key == CacheKey("crossref", paper)
    IN  IF key \in DOMAIN c
        THEN Returned(CodesOrNone(c[key], "crossref"), c, 0)
        ELSE LET h == http_get(oracle, ChainRetries)
             IN  IF h.resp = 0
                 THEN Returned(NoResult, c, h.nreq)
                 ELSE IF ~ up.json
                 THEN Raised(c, h.nreq)
                 ELSE Returned(CodesOrNone(up.text, "crossref"),
                               CachePut(c, key, up.text), h.nreq)

fetch_jel_from_openalex(paper, c, oracle, up) ==
    LET key == CacheKey("openalex", paper)
    IN  IF key \in DOMAIN c
        THEN Returned(CodesOrNone(c[key], "openalex"), c, 0)
        ELSE LET h == http_get(oracle, ChainRetries)
             IN  IF h.resp = 0
                 THEN Returned(NoResult, c, h.nreq)
                 ELSE IF ~ up.json
                 THEN Raised(c, h.nreq)
                 ELSE Returned(CodesOrNone(up.text, "openalex"),
                               CachePut(c, key, up.text), h.nreq)

fetch_jel_from_ideas(paper, c, oracle, up) ==
    LET h == http_get(oracle, ChainRetries)
    IN  IF h.resp = 0
        THEN WithoutCacheCheck(Returned(NoResult, c, h.nreq))
        ELSE WithoutCacheCheck(
                 Returned(CodesOrNone(up.text, IdeasTag), c, h.nreq))

\* the if/elif of _enrich_paper: whether `source' calls a strategy
Applicable(source, paper) ==
    \/ source = "aea_page" /\ paper.doi
    \/ source = "crossref" /\ paper.doi
    \/ source = "openalex" /\ paper.oid
    \/ source = "ideas_repec" /\ paper.doi

CallStrategy(source, paper, c, oracle, up) ==
    CASE source = "aea_page" -> fetch_jel_from_aea(paper, c, oracle, up)
      [] source = "crossref" -> fetch_jel_from_crossref(paper, c, oracle, up)
      [] source = "openalex" -> fetch_jel_from_openalex(paper, c, oracle, up)
      [] OTHER               -> fetch_jel_from_ideas(paper, c, oracle, up)

----------------------------------------------------------------------------
(* Files.  A raw line is "full" (a work with a DOI and an id), "nodoi" (a  *)
(* work with an id only), "bare" (a work with neither; SpecChain only) or  *)
(* "corrupt" (not JSON).  The enriched file is its newline-terminated lines *)
(* and the bytes after the last newline; a line is the sequence of pieces  *)
(* written between two newlines, a piece being what one write left in the  *)
(* file: a whole record or the fragment of one.                            *)

LineKinds == {"full", "nodoi", "corrupt"}

RawFiles == UNION {[1..n -> LineKinds] : n \in 0..MaxRaw}

\* json.loads of raw line i
Work(kind, i) ==
    [id |-> i, doi |-> kind = "full", oid |-> kind \in {"full", "nodoi"}]

RECURSIVE ReadFrom_stops(_, _)
\* a loop that gives up the file at its first unparsable line
ReadFrom_stops(file, i) ==
    IF i > Len(file) \/ file[i] = "corrupt" THEN <<>>
    ELSE <<Work(file[i], i)>> \o ReadFrom_stops(file, i + 1)

RECURSIVE ReadFrom(_, _)
ReadFrom(file, i) ==
    IF i > Len(file) THEN <<>>
    ELSE IF file[i] = "corrupt" THEN ReadFrom(file, i + 1)
    ELSE <<Work(file[i], i)>> \o ReadFrom(file, i + 1)

\* _enrich_file: the loop over the raw lines, an unparsable line skipped
read_papers(file) == ReadFrom(file, 1)

\* enrich_jel_codes: raw_count, the non-blank lines of the raw file
raw_count(file) == Len(file)

\* a count that misses the last line
count_lines_short(lines, tl) == IF lines = <<>> THEN 0 ELSE Len(lines) - 1

\* sum(1 for line in f if line.strip()): an unterminated last line counts
count_lines(lines, tl) == Len(lines) + (IF tl # <<>> THEN 1 ELSE 0)

\* a driver that does not look at the partial output file
AlreadyDone_ignored(exists, lines, tl) == 0

\* _enrich_file: already_done
AlreadyDone(exists, lines, tl) == IF exists THEN count_lines(lines, tl) ELSE 0

\* a file opened with 'w' instead: its content is gone
opened_truncated(content) == <<>>

\* open(output_file, 'a'): what the file holds once opened
opened_for_append(content) == content

\* papers[already_done:]: the number of papers skipped
FirstRemaining(done) == done

NoPaper == [id |-> 0, jel_codes |-> <<>>, jel_source |-> ""]

\* json.dumps(enriched_paper) + '\n' as written by one whole write
WholePiece(p) ==
    [id |-> p.id, jel_codes |-> p.jel_codes, jel_source |-> p.jel_source,
     whole |-> TRUE]

\* what a write cut short leaves: the beginning of the record's text
Fragment(p) ==
    [id |-> p.id, jel_codes |-> <<>>, jel_source |-> "", whole |-> FALSE]

\* a result that keeps the codes and loses their provenance
Enriched_unsourced(paper, res) ==
    [id |-> paper.id, jel_codes |-> res.jel_codes, jel_source |-> "missing"]

\* the result of _enrich_paper when a strategy supplied `res'
Enriched(paper, res) ==
    [id |-> paper.id, jel_codes |-> res.jel_codes, jel_source |-> res.source]

\* a result that leaves the provenance unset
Missing_untagged(paper) ==
    [id |-> paper.id, jel_codes |-> <<>>, jel_source |-> ""]

\* the result of _enrich_paper when no strategy did
Missing(paper) ==
    [id |-> paper.id, jel_codes |-> <<>>, jel_source |-> "missing"]

\* a loop that goes on after a result
NeverBreaks(res) == FALSE

\* the for loop stops at a result
Breaks(res) == res.found

\* no try/except around the strategy call
PropagatesStrategyError == FALSE

\* except Exception: continue
CatchesStrategyError == TRUE

Stopped == {"idle", "done", "killed", "failed"}

----------------------------------------------------------------------------
(* The driver: enrich_jel_codes on the raw file, then _enrich_file *)

StartRun ==
    /\ pc \in Stopped
    /\ LET ps   == read_papers(raw)
           skip == /\ enrichedExists
                   /\ count_lines(enriched, tail) >= raw_count(raw)
           done == AlreadyDone(enrichedExists, enriched, tail)
       IN  IF skip \/ ps = <<>> \/ (enrichedExists /\ done >= Len(ps))
           THEN /\ pc' = "done"
                /\ already_done' = done
                /\ UNCHANGED <<papers, cur, enrichedExists, enriched, tail>>
           ELSE /\ pc' = "loop"
                /\ papers' = ps
                /\ already_done' = done
                /\ cur' = FirstRemaining(done)
                /\ enrichedExists' = TRUE
                /\ enriched' = opened_for_append(enriched)
                /\ tail' = opened_for_append(tail)
    /\ UNCHANGED <<sources, raw, cache, srcPos, out, attempted>>
    /\ UNCHANGED <<httpVars, legacyVars, pageVars, asmVars, utilVars,
                 batchVars, twin>>

\* the record is a JSON object: paper.get(...) works on it
IsObject(paper) == raw[paper.id] # "notobject"

\* the for loop of _enrich_file takes the next paper: _enrich_paper starts,
\* and its first statement, paper.get('doi'), raises on a record that is no
\* object; nothing in _enrich_file catches it, so the error ends the file
BeginPaper ==
    /\ pc = "loop"
    /\ cur < Len(papers)
    /\ IF IsObject(papers[cur + 1])
       THEN /\ pc' = "chain"
            /\ srcPos' = 1
            /\ attempted' = <<>>
       ELSE /\ pc' = "failed"
            /\ UNCHANGED <<srcPos, attempted>>
    /\ UNCHANGED <<papers, already_done, cur, out>>
    /\ UNCHANGED <<fileVars, httpVars, legacyVars, pageVars, asmVars, utilVars,
                 batchVars, twin>>

\* one iteration of the for loop of _enrich_paper
TryStrategy ==
    /\ pc = "chain"
    /\ srcPos <= Len(sources)
    /\ LET source == sources[srcPos]
           paper  == papers[cur + 1]
       IN  IF ~ Applicable(source, paper)
           THEN /\ srcPos' = srcPos + 1
                /\ UNCHANGED <<pc, out, attempted, cache>>
           ELSE \E oracle \in Oracles(ChainRetries), up \in Upstream(source) :
                  LET r == CallStrategy(source, paper, cache, oracle, up)
                      entry == [name |-> source, nreq |-> r.nreq,
                                codes |-> r.res.jel_codes,
                                raised |-> r.raised,
                                checked |-> r.checked,
                                slept |-> ~ r.raised /\ ~ Breaks(r.res)]
                  IN  /\ attempted' = Append(attempted, entry)
                      /\ cache' = r.cache
                      /\ IF r.raised /\ ~ CatchesStrategyError
                         THEN /\ pc' = "failed"
                              /\ UNCHANGED <<srcPos, out>>
                         ELSE IF ~ r.raised /\ Breaks(r.res)
                         THEN /\ pc' = "write"
                              /\ out' = Enriched(paper, r.res)
                              /\ UNCHANGED srcPos
                         ELSE /\ srcPos' = srcPos + 1
                              /\ UNCHANGED <<pc, out>>
    /\ UNCHANGED <<sources, raw, enriched, tail, enrichedExists>>
    /\ UNCHANGED <<papers, already_done, cur>>
    /\ UNCHANGED <<httpVars, legacyVars, pageVars, asmVars, utilVars,
                 batchVars, twin>>

\* the for loop of _enrich_paper ran out of sources: the paper is "missing"
ChainExhausted ==
    /\ pc = "chain"
    /\ srcPos > Len(sources)
    /\ pc' = "write"
    /\ out' = Missing(papers[cur + 1])
    /\ UNCHANGED <<papers, already_done, cur, srcPos, attempted>>
    /\ UNCHANGED <<fileVars, httpVars, legacyVars, pageVars, asmVars, utilVars,
                 batchVars, twin>>

\* out_fh.write(...); out_fh.flush()
WritePaper ==
    /\ pc = "write"
    /\ enriched' = Append(enriched, tail \o <<WholePiece(out)>>)
    /\ tail' = <<>>
    /\ cur' = cur + 1
    /\ pc' = "loop"
    /\ out' = NoPaper
    /\ attempted' = <<>>
    /\ srcPos' = 0
    /\ UNCHANGED <<sources, raw, enrichedExists, cache>>
    /\ UNCHANGED <<papers, already_done>>
    /\ UNCHANGED <<httpVars, legacyVars, pageVars, asmVars, utilVars,
                 batchVars, twin>>

\* the for loop of _enrich_file is over: the file is closed, the run ends
EndRun ==
    /\ pc = "loop"
    /\ cur >= Len(papers)
    /\ pc' = "done"
    /\ papers' = <<>>
    /\ cur' = 0
    /\ UNCHANGED <<already_done, srcPos, out, attempted>>
    /\ UNCHANGED <<fileVars, httpVars, legacyVars, pageVars, asmVars, utilVars,
                 batchVars, twin>>

\* the process is terminated outside a write: the files stay as they are
Kill ==
    /\ pc \in {"loop", "chain", "write"}
    /\ pc' = "killed"
    /\ papers' = <<>>
    /\ already_done' = 0
    /\ cur' = 0
    /\ srcPos' = 0
    /\ out' = NoPaper
    /\ attempted' = <<>>
    /\ UNCHANGED <<fileVars, httpVars, legacyVars, pageVars, asmVars, utilVars,
                 batchVars, twin>>

\* the process is terminated while the line is being written: the
\* beginning of the line is in the file, its newline is not
KillMidWrite ==
    /\ pc = "write"
    /\ Len(tail) < MaxTorn
    /\ tail' = tail \o <<Fragment(out)>>
    /\ pc' = "killed"
    /\ papers' = <<>>
    /\ already_done' = 0
    /\ cur' = 0
    /\ srcPos' = 0
    /\ out' = NoPaper
    /\ attempted' = <<>>
    /\ UNCHANGED <<sources, raw, enriched, enrichedExists, cache>>
    /\ UNCHANGED <<httpVars, legacyVars, pageVars, asmVars, utilVars,
                 batchVars, twin>>

\* the configuration of the driver specifications
DriverSources == <<"crossref", "ideas_repec">>

NoHttpIn  == [retries |-> 0, oracle |-> <<>>]
NoHttpOut == [called |-> FALSE, resp |-> 0, nreq |-> 0, waits |-> <<>>]

IdleHttp == hIn = NoHttpIn /\ hOut = NoHttpOut

IdleLegacy == lpc = "off" /\ lJob = 0 /\ lPage = 0 /\ lFiles = <<>>

NoListing == <<>>

IdlePages ==
    /\ upstream = NoListing
    /\ blocked = FALSE
    /\ max_retries = 0
    /\ ypc = "off"
    /\ cursor = ""
    /\ yPapers = <<>>
    /\ pageLog = <<>>

IdleAssembly ==
    /\ files = <<>>
    /\ input = <<>>
    /\ rows = <<>>
    /\ df = <<>>
    /\ apc = "off"

NoCall == [fn |-> "none", args |-> <<>>]

IdleUtil == uIn = NoCall /\ uOut = <<>>

\* openalex_source_id of each configured journal: an identifier, and a
\* placeholder left in the configuration
DefaultIds == <<(<<"S", "1">>), (<<"<", "i", "d", ">">>)>>

DefaultConfig == [ids |-> DefaultIds, missing |-> "none"]

IdleBatch ==
    /\ bCfg = DefaultConfig
    /\ bWorld = <<>>
    /\ bpc = "off"
    /\ bJob = 0
    /\ bFiles = <<>>
    /\ bLog = <<>>
    /\ bRun = 0
    /\ bStart = <<>>

\* there is one driver process only
NoTwin ==
    [pc |-> "absent", papers |-> <<>>, already_done |-> 0, cur |-> 0,
     srcPos |-> 0, out |-> NoPaper, attempted |-> <<>>]

IdleDriver ==
    /\ twin = NoTwin
    /\ enriched = <<>>
    /\ tail = <<>>
    /\ enrichedExists = FALSE
    /\ cache = EmptyCache
    /\ pc = "idle"
    /\ papers = <<>>
    /\ already_done = 0
    /\ cur = 0
    /\ srcPos = 0
    /\ out = NoPaper
    /\ attempted = <<>>

Init ==
    /\ sources = DriverSources
    /\ raw \in RawFiles
    /\ IdleDriver
    /\ IdleHttp
    /\ IdleLegacy
    /\ IdlePages
    /\ IdleAssembly
    /\ IdleUtil
    /\ IdleBatch

Next ==
    \/ StartRun
    \/ BeginPaper
    \/ TryStrategy
    \/ ChainExhausted
    \/ WritePaper
    \/ EndRun
    \/ Kill

Spec == Init /\ [][Next]_vars

NextCrash == Next \/ KillMidWrite

SpecCrash == Init /\ [][NextCrash]_vars

\* one work, every order of at most MaxSources configured names; the name
\* "aea_search" is one _enrich_paper has no strategy for
ChainNames == KnownSources \cup {"aea_search"}

Configs ==
    UNION {{c \in [1..n -> ChainNames] :
               \A i, j \in 1..n : i # j => c[i] # c[j]} : n \in 0..MaxSources}

InitChain ==
    /\ sources \in Configs
    /\ raw \in {<<k>> : k \in {"full", "nodoi", "bare"}}
    /\ IdleDriver
    /\ IdleHttp
    /\ IdleLegacy
    /\ IdlePages
    /\ IdleAssembly
    /\ IdleUtil
    /\ IdleBatch

SpecChain == InitChain /\ [][Next]_vars

----------------------------------------------------------------------------
(* Properties of the driver *)

NumRecords == Len(read_papers(raw))

\* line i of the enriched file is one whole record, that of raw record i
LineOf(i) ==
    /\ Len(enriched[i]) = 1
    /\ enriched[i][1].whole
    /\ enriched[i][1].id = read_papers(raw)[i].id

\* C1: a run that completes on a raw file of N records and an enriched file
\* of k < N lines leaves exactly N lines, and no step of a run changes or
\* removes a line that is already in the file (so the first k are the ones
\* that were there before the run).
Resumable_C1 ==
    /\ [](pc = "done" /\ already_done < NumRecords
            => Len(enriched) = NumRecords /\ tail = <<>>)
    /\ [][/\ Len(enriched') >= Len(enriched)
          /\ SubSeq(enriched', 1, Len(enriched)) = enriched]_vars

\* a completed run that resumed after k >= 1 lines and appended the rest
Witness_C1 ==
    /\ pc = "done"
    /\ already_done >= 1
    /\ already_done < Len(enriched)

\* C2: after any sequence of complete runs and of runs interrupted between
\* two writes, line i of the enriched file is the enrichment of raw record
\* i: the file is a prefix, in raw order, of the enriched sequence, and no
\* record is in it twice.
Ordering_C2 ==
    /\ tail = <<>>
    /\ Len(enriched) <= NumRecords
    /\ \A i \in 1..Len(enriched) : LineOf(i)

\* a run that resumed an interrupted one and has appended a line, in a raw
\* file with an unreadable line before the record appended
Witness_C2 ==
    /\ pc = "loop"
    /\ already_done >= 1
    /\ cur > already_done
    /\ enriched[cur][1].id > cur

\* C3: whatever the point at which a run was terminated, a later run that
\* completes leaves exactly one whole line per raw record, in raw order.
CrashSafe_C3 ==
    pc = "done" =>
        /\ tail = <<>>
        /\ Len(enriched) = NumRecords
        /\ \A i \in 1..Len(enriched) : LineOf(i)

\* C4: a run on a raw file whose enriched file has at least as many lines
\* as the raw file has records ends at once: it writes nothing, calls no
\* strategy, issues no request and stores nothing in the cache.
NoOp_C4 ==
    [][(/\ pc \in Stopped
        /\ enrichedExists
        /\ count_lines(enriched, tail) >= NumRecords)
       => (/\ pc' \in Stopped
           /\ enriched' = enriched
           /\ tail' = tail
           /\ enrichedExists' = enrichedExists
           /\ cache' = cache
           /\ attempted' = <<>>)]_vars

\* a run that found a fully enriched file of a raw file with records, one
\* of whose lines is unreadable, and ended without work
Witness_C4 ==
    /\ pc = "done"
    /\ enrichedExists
    /\ NumRecords >= 1
    /\ NumRecords < Len(raw)
    /\ already_done >= NumRecords

----------------------------------------------------------------------------
(* Properties of the chain *)

InPaper == pc \in {"chain", "write"}

CurrentPaper == papers[cur + 1]

AttemptedNames == [i \in 1..Len(attempted) |-> attempted[i].name]

IsApplicable(source) == Applicable(source, CurrentPaper)

\* the strategies the first n configured names call for the current work
CalledAmong(n) == SelectSeq(SubSeq(sources, 1, n), IsApplicable)

LastAttempt == attempted[Len(attempted)]

\* C5: the strategies are attempted in the configured order; the first
\* one that returns codes supplies the record's codes and none after it
\* is attempted.
ChainOrder_C5 ==
    InPaper =>
        /\ \E n \in 0..Len(sources) : AttemptedNames = CalledAmong(n)
        /\ \A i \in 1..Len(attempted) :
               attempted[i].codes # <<>> =>
                   /\ i = Len(attempted)
                   /\ pc = "write"
                   /\ out.jel_codes = attempted[i].codes
        /\ (pc = "write" /\ \A i \in 1..Len(attempted) :
                                attempted[i].codes = <<>>)
               => AttemptedNames = CalledAmong(Len(sources))

\* the second strategy attempted won while a later one applies to the work
Witness_C5 ==
    /\ pc = "write"
    /\ Len(attempted) = 2
    /\ LastAttempt.codes # <<>>
    /\ CalledAmong(Len(sources)) # AttemptedNames

\* C6: when every strategy of the chain yields nothing, the record gets
\* an empty code list and the provenance "missing", and it is written to
\* the enriched file like any other.
Missing_C6 ==
    /\ []((pc = "write" /\ \A i \in 1..Len(attempted) :
                               attempted[i].codes = <<>>)
            => out.jel_codes = <<>> /\ out.jel_source = "missing")
    /\ [][(pc = "write" /\ pc' \notin {"write", "killed"})
            => enriched' = Append(enriched, <<WholePiece(out)>>)]_vars

\* a "missing" line written for a work that two strategies were tried for
Witness_C6 ==
    /\ Len(enriched) = 1
    /\ enriched[1][1].jel_source = "missing"
    /\ enriched[1][1].jel_codes = <<>>
    /\ raw = <<"full">>
    /\ Len(sources) >= 2
    /\ \A i \in 1..Len(sources) : sources[i] \in KnownSources

\* C7: a strategy that raises does not end _enrich_paper: the loop goes
\* on with the next configured source, and a later strategy that returns
\* codes supplies the record's codes.
StrategyError_C7 ==
    /\ [][(/\ pc = "chain"
           /\ Len(attempted') > Len(attempted)
           /\ attempted'[Len(attempted')].raised)
          => (pc' = "chain" /\ srcPos' = srcPos + 1)]_vars
    /\ []((pc = "write" /\ attempted # <<>> /\ LastAttempt.codes # <<>>)
            => /\ out.jel_codes = LastAttempt.codes
               /\ out.jel_source # "missing")

\* a strategy raised and a later one supplied the codes
Witness_C7 ==
    /\ pc = "write"
    /\ \E i \in 1..Len(attempted) : attempted[i].raised
    /\ LastAttempt.codes # <<>>
    /\ out.jel_codes = LastAttempt.codes

\* C8: the provenance recorded when a strategy wins is that strategy's
\* name in the configured order.
Provenance_C8 ==
    (pc = "write" /\ attempted # <<>> /\ LastAttempt.codes # <<>>)
        => out.jel_source = LastAttempt.name

\* the strategies that keep what they fetched in the cache directory
CachingSources == {"aea_page", "crossref", "openalex"}

\* the step is one strategy call of _enrich_paper
StrategyCalled == Len(attempted') = Len(attempted) + 1

NewAttempt == attempted'[Len(attempted')]

\* C11: every strategy of the chain looks in the cache before it issues a
\* request; when the entry of its target exists the strategy issues no
\* request, leaves the cache as it is and takes its codes from the entry.
CacheFirst_C11 ==
    /\ [][(/\ StrategyCalled
           /\ NewAttempt.name \in CachingSources
           /\ CacheKey(NewAttempt.name, CurrentPaper) \in DOMAIN cache)
          => (/\ NewAttempt.nreq = 0
              /\ cache' = cache
              /\ NewAttempt.codes = extract_jel_from_text(
                     cache[CacheKey(NewAttempt.name, CurrentPaper)]))]_vars
    /\ [](\A i \in 1..Len(attempted) :
             attempted[i].nreq > 0 => attempted[i].checked)

\* C12: a step never changes or removes an entry of the cache, and a new
\* entry appears only in a strategy call that issued a request for the
\* entry's own key and got a response, whose body is the entry's payload.
WriteOnce_C12 ==
    [][/\ \A k \in DOMAIN cache :
              k \in DOMAIN cache' /\ cache'[k] = cache[k]
       /\ \A k \in DOMAIN cache' \ DOMAIN cache :
              /\ StrategyCalled
              /\ NewAttempt.name \in CachingSources
              /\ k = CacheKey(NewAttempt.name, CurrentPaper)
              /\ NewAttempt.nreq >= 1
              /\ ~ NewAttempt.raised
              /\ \E up \in Upstream(NewAttempt.name) :
                     up.json /\ cache'[k] = up.text]_vars

\* a run resumed after a kill finds two entries in the cache and a strategy
\* answers from its entry without a request
Witness_C12 ==
    /\ pc = "chain"
    /\ Cardinality(DOMAIN cache) >= 2
    /\ \E i \in 1..Len(attempted) :
           attempted[i].nreq = 0 /\ attempted[i].name = "crossref"

----------------------------------------------------------------------------
(* http_get called alone, on every retries argument up to MaxRetries and   *)
(* every outcome of the requests it may issue                              *)

InitHttp ==
    /\ hIn \in [retries : 0..MaxRetries, oracle : Oracles(MaxRetries + 1)]
    /\ hOut = NoHttpOut
    /\ sources = <<>>
    /\ raw = <<>>
    /\ IdleDriver
    /\ IdleLegacy
    /\ IdlePages
    /\ IdleAssembly
    /\ IdleUtil
    /\ IdleBatch

CallHttpGet ==
    /\ ~ hOut.called
    /\ LET h == http_get(hIn.oracle, hIn.retries)
       IN  hOut' = [called |-> TRUE, resp |-> h.resp, nreq |-> h.nreq,
                    waits |-> h.waits]
    /\ UNCHANGED <<hIn, fileVars, driverVars, legacyVars, pageVars, asmVars, utilVars,
                 batchVars>>

NextHttp == CallHttpGet

SpecHttp == InitHttp /\ [][NextHttp]_vars

\* the requests, among the first `retries', that succeed
Successes == {i \in 1..hIn.retries : hIn.oracle[i]}

FirstSuccess == CHOOSE i \in Successes : \A j \in Successes : i <= j

\* C9: http_get issues at most `retries' requests, at least one when
\* retries >= 1; it returns the response of the first request that
\* succeeds and issues no request after it, and returns None when none does.
BoundedRetry_C9 ==
    hOut.called =>
        /\ hOut.nreq <= hIn.retries
        /\ (hIn.retries >= 1 => hOut.nreq >= 1)
        /\ IF Successes # {}
           THEN hOut.resp = FirstSuccess /\ hOut.nreq = FirstSuccess
           ELSE hOut.resp = 0

\* the first request failed, the second succeeded and was returned, and
\* the third, which would have succeeded too, was not issued
Witness_C9 ==
    /\ hOut.called
    /\ hIn.retries = 3
    /\ ~ hIn.oracle[1]
    /\ hIn.oracle[3]
    /\ hOut.resp = 2
    /\ hOut.nreq = 2

\* 2^n
RECURSIVE TwoTo(_)
TwoTo(n) == IF n = 0 THEN 1 ELSE 2 * TwoTo(n - 1)

\* C33: the wait after failed attempt i is 2^(i-1) seconds; a wait happens
\* only between a failed attempt and the next attempt, so there is one wait
\* less than there are requests: a call that exhausts its attempts has
\* waited retries - 1 times, and nothing is waited after the last failure or
\* after a success
Backoff_C33 ==
    hOut.called =>
        /\ \A i \in 1..Len(hOut.waits) :
              /\ hOut.waits[i] = TwoTo(i - 1)
              /\ ~ hIn.oracle[i]
              /\ i < hOut.nreq
        /\ Len(hOut.waits) = (IF hOut.nreq = 0 THEN 0 ELSE hOut.nreq - 1)
        /\ (hOut.resp = 0 /\ hIn.retries >= 1)
              => Len(hOut.waits) = hIn.retries - 1

\* three attempts all failed: waits of 1 and 2 seconds, none after the last
Witness_C33 ==
    /\ hOut.called
    /\ hIn.retries = 3
    /\ hOut.resp = 0
    /\ hOut.nreq = 3
    /\ hOut.waits = <<1, 2>>

----------------------------------------------------------------------------
(* fetch_openalex.main: fetch_and_save for each journal and year in turn.  *)
(* A job is one (journal, year); lFiles[j] is the number of pages appended *)
(* to job j's output file.                                                 *)

\* the keys of config['journals'] and the publication years, ascending
JournalKeys == <<"aer", "qje">>
Years       == <<2020, 2021>>

JournalNames == <<(<<"A", "_", "R">>), (<<"Q", "_", "J">>)>>

NumJobs == Len(JournalKeys) * Len(Years)

\* the loops of fetch_papers: journals outside, years inside
JobJournal(j) == (((j - 1) \div Len(Years)) % Len(JournalKeys)) + 1
JobYear(j)    == Years[((j - 1) % Len(Years)) + 1]

\* what a (journal, year) meets: _fetch_year returns no paper, or raises,
\* or returns papers; then _enrich_file completes, or raises once it has
\* opened the enriched file
Meets == {"nothing", "error", "papers", "papers_stuck"}

\* the keys a configuration may lack; "file" is the file itself
ConfigKeys ==
    {"file", "progress.log_file", "journals", "scraping.max_retries",
     "scraping.rate_limit_delay", "jel_enrichment.sources"}

SourceIds == {<<>>, <<"<", "i", "d", ">">>, <<"S", "1">>, <<"S", "2">>}

NoFilter == [kind |-> "none", year |-> 0, value |-> <<>>]

\* a fetcher that keeps the kind of filter of its first call
PipelineFilter_memo(source_id, journal_name, year) ==
    IF \E i \in 1..Len(bLog) : bLog[i].filter.kind = "display_name"
    THEN [kind |-> "display_name", year |-> year, value |-> journal_name]
    ELSE [kind |-> "source_id", year |-> year, value |-> source_id]

\* _fetch_year: filter_str
PipelineFilter(source_id, journal_name, year) ==
    IF source_id # <<>> /\ Head(source_id) # "<"
    THEN [kind |-> "source_id", year |-> year, value |-> source_id]
    ELSE [kind |-> "display_name", year |-> year, value |-> journal_name]

\* str.replace("_", " ")
Unscore(text) ==
    [i \in 1..Len(text) |-> IF text[i] = "_" THEN " " ELSE text[i]]

\* fetch_and_save: params["filter"]
LegacyFilter(openalex_source_id, journal_name, year) ==
    IF \/ openalex_source_id = <<>>
       \/ LStrip(openalex_source_id) # <<>>
            /\ Head(LStrip(openalex_source_id)) = "<"
    THEN [kind |-> "display_name", year |-> year,
          value |-> Unscore(journal_name)]
    ELSE [kind |-> "source_id", year |-> year, value |-> openalex_source_id]

Entry(step, job, filter, outcome) ==
    [step |-> step, job |-> job, filter |-> filter, outcome |-> outcome]

\* what fetch_and_save does for job j: the request it sends
LegacyEntry(j, outcome) ==
    Entry("fetch_and_save", j,
          LegacyFilter(bCfg.ids[JobJournal(j)], JournalNames[JobJournal(j)],
                       JobYear(j)),
          outcome)

InitLegacy ==
    /\ lpc = "fetch"
    /\ lJob = 1
    /\ lPage = 0
    /\ lFiles = [j \in 1..MaxJobs |-> 0]
    /\ sources = <<>>
    /\ raw = <<>>
    /\ IdleDriver
    /\ IdleHttp
    /\ IdlePages
    /\ IdleAssembly
    /\ IdleUtil
    /\ IdleBatch

\* one iteration of the while loop of fetch_and_save; RetryError is caught
\* neither there nor in main
LegacyFetchPage ==
    /\ lpc = "fetch"
    /\ \E oracle \in Oracles(DoGetAttempts), more \in BOOLEAN :
         LET r == do_get(oracle)
         IN  IF r.raised
             THEN /\ lpc' = "aborted"
                  /\ bLog' = Append(bLog, LegacyEntry(lJob, "raised"))
                  /\ UNCHANGED <<lJob, lPage, lFiles>>
             ELSE /\ lFiles' = [lFiles EXCEPT ![lJob] = @ + 1]
                  /\ bLog' = Append(bLog, LegacyEntry(lJob, "appended"))
                  /\ IF more /\ lPage + 1 < MaxPages
                     THEN /\ lPage' = lPage + 1
                          /\ UNCHANGED <<lpc, lJob>>
                     ELSE /\ lPage' = 0
                          /\ IF lJob < MaxJobs
                             THEN lJob' = lJob + 1 /\ UNCHANGED lpc
                             ELSE lpc' = "finished" /\ UNCHANGED lJob
    /\ UNCHANGED <<bCfg, bWorld, bpc, bJob, bFiles, bRun, bStart>>
    /\ UNCHANGED <<fileVars, driverVars, httpVars, pageVars, asmVars, utilVars>>

NextLegacy == LegacyFetchPage

SpecLegacy == InitLegacy /\ [][NextLegacy]_vars

\* C10: a network failure that lasts through all attempts is not raised:
\* the fetch of the page ends without a result and the run goes on with
\* the remaining years and collections.
NeverRaised_C10 == lpc # "aborted"

----------------------------------------------------------------------------
(* Pipeline._fetch_year: the cursor loop over the listing of one            *)
(* (journal, year).  The API serves a finite chain of pages; a page is      *)
(* [results, next]: its works and the next_cursor of its meta, NoCursor on  *)
(* the last page.  A work of the listing is <<page, rank>>.                 *)

StartCursor == "*"
NoCursor    == "none"
Tokens      == {"a", "b", "c"}

\* the works of page i: none, or two
PageResults(i) == {<<>>, <<(<<i, 1>>), (<<i, 2>>)>>}

\* the chains of n pages: the tokens are opaque and all different
Chains(n) ==
    {l \in [1..n -> [results : UNION {PageResults(i) : i \in 1..n},
                     next : Tokens \cup {NoCursor}]] :
        /\ \A i \in 1..n : l[i].results \in PageResults(i)
        /\ \A i \in 1..n : (l[i].next = NoCursor) = (i = n)
        /\ \A i, j \in 1..n : i # j => l[i].next # l[j].next}

Listings == UNION {Chains(n) : n \in 1..MaxPages}

\* the page the API answers a request carrying cursor c with
PageFor(listing, c) ==
    IF c = StartCursor THEN 1
    ELSE IF \E i \in 1..Len(listing) - 1 : listing[i].next = c
    THEN 1 + CHOOSE i \in 1..Len(listing) - 1 : listing[i].next = c
    ELSE 1

\* what a successful response may hold: a JSON object, text that is not
\* JSON, or JSON that is not an object
Bodies == {"object", "notjson", "notobject"}

\* a loop that sends the cursor it already sent
NextCursor_stuck(c, next_cursor) == c

\* cursor = next_cursor
NextCursor(c, next_cursor) == next_cursor

\* a fetcher that gives up what it had accumulated
partial_result_dropped(ps) == <<>>

\* break, then return papers
partial_result(ps) == ps

RECURSIVE ConcatPages(_, _)
\* the works of the first n pages of the listing, in page order
ConcatPages(listing, n) ==
    IF n = 0 THEN <<>>
    ELSE ConcatPages(listing, n - 1) \o listing[n].results

\* a fetcher that does not consult robots.txt
RobotsStop_ignored(disallowed) == FALSE

\* respect_robots_txt and not robots_checker.can_fetch(url): return papers
RobotsStop(disallowed) == disallowed

\* _fetch_year is called: the robots check, then cursor = "*"
StartFetchYear ==
    /\ ypc = "idle"
    /\ yPapers' = <<>>
    /\ pageLog' = <<>>
    /\ IF RobotsStop(blocked)
       THEN ypc' = "returned" /\ UNCHANGED cursor
       ELSE ypc' = "page" /\ cursor' = StartCursor
    /\ UNCHANGED <<upstream, blocked, max_retries>>
    /\ UNCHANGED <<fileVars, driverVars, httpVars, legacyVars, asmVars, utilVars,
                 batchVars>>

\* one iteration of the while loop of _fetch_year
FetchPage ==
    /\ ypc = "page"
    /\ \E oracle \in Oracles(max_retries), body \in Bodies :
         LET h    == http_get(oracle, max_retries)
             page == upstream[PageFor(upstream, cursor)]
             req  == [cursor |-> cursor, nreq |-> h.nreq]
         IN  IF h.resp = 0
             THEN /\ pageLog' = Append(pageLog,
                        [sent |-> req, outcome |-> "exhausted",
                         next |-> NoCursor])
                  /\ yPapers' = partial_result(yPapers)
                  /\ ypc' = "returned"
                  /\ UNCHANGED cursor
             ELSE IF body = "notjson"
             THEN /\ pageLog' = Append(pageLog,
                        [sent |-> req, outcome |-> "notjson",
                         next |-> NoCursor])
                  /\ ypc' = "returned"
                  /\ UNCHANGED <<cursor, yPapers>>
             ELSE IF body = "notobject"
             THEN /\ pageLog' = Append(pageLog,
                        [sent |-> req, outcome |-> "notobject",
                         next |-> NoCursor])
                  /\ ypc' = "raised"
                  /\ UNCHANGED <<cursor, yPapers>>
             ELSE /\ pageLog' = Append(pageLog,
                        [sent |-> req, outcome |-> "ok",
                         next |-> page.next])
                  /\ yPapers' = yPapers \o page.results
                  /\ IF page.next = NoCursor
                     THEN ypc' = "returned" /\ UNCHANGED cursor
                     ELSE /\ cursor' = NextCursor(cursor, page.next)
                          /\ UNCHANGED ypc
    /\ UNCHANGED <<upstream, blocked, max_retries>>
    /\ UNCHANGED <<fileVars, driverVars, httpVars, legacyVars, asmVars, utilVars,
                 batchVars>>

InitPages ==
    /\ upstream \in Listings
    /\ blocked \in BOOLEAN
    /\ max_retries \in 0..MaxRetries
    /\ ypc = "idle"
    /\ cursor = ""
    /\ yPapers = <<>>
    /\ pageLog = <<>>
    /\ sources = <<>>
    /\ raw = <<>>
    /\ IdleDriver
    /\ IdleHttp
    /\ IdleLegacy
    /\ IdleAssembly
    /\ IdleUtil
    /\ IdleBatch

NextPages == StartFetchYear \/ FetchPage

SpecPages == InitPages /\ [][NextPages]_vars

\* fetch_papers: `if papers:' opens the raw file of the year and writes
WritesRawFile == ypc = "returned" /\ yPapers # <<>>

\* the number of page requests that were answered with a page
PagesRead == Cardinality({i \in 1..Len(pageLog) : pageLog[i].outcome = "ok"})

LastRequest == pageLog[Len(pageLog)]

\* C13: the first page request carries the start cursor; every later one
\* carries the next_cursor of the response before it; a response without
\* next_cursor ends the fetch, which then returns the works of all pages
\* of the listing, in page order, each page once.
Pagination_C13 ==
    /\ pageLog # <<>> => pageLog[1].sent.cursor = StartCursor
    /\ \A i \in 2..Len(pageLog) :
           /\ pageLog[i - 1].outcome = "ok"
           /\ pageLog[i - 1].next # NoCursor
           /\ pageLog[i].sent.cursor = pageLog[i - 1].next
    /\ yPapers = ConcatPages(upstream, PagesRead)
    /\ (pageLog # <<>> /\ LastRequest.outcome = "ok"
           /\ LastRequest.next = NoCursor)
          => /\ ypc = "returned"
             /\ Len(pageLog) = Len(upstream)
             /\ yPapers = ConcatPages(upstream, Len(upstream))

\* a listing of three pages, the tokens not in alphabetical order, read to
\* its end
Witness_C13 ==
    /\ ypc = "returned"
    /\ Len(pageLog) = 3
    /\ LastRequest.outcome = "ok"
    /\ pageLog[2].sent.cursor = "b"
    /\ pageLog[3].sent.cursor = "a"
    /\ Len(yPapers) >= 4

\* C14: when the request for a page exhausts its retries, _fetch_year
\* stops without raising and returns the works of the pages read before.
PartialKept_C14 ==
    (pageLog # <<>> /\ LastRequest.outcome = "exhausted")
        => /\ ypc = "returned"
           /\ yPapers = ConcatPages(upstream, Len(pageLog) - 1)

\* the third page request failed max_retries times after two pages with
\* works were read
Witness_C14 ==
    /\ Len(pageLog) = 3
    /\ LastRequest.outcome = "exhausted"
    /\ LastRequest.sent.nreq = max_retries
    /\ max_retries >= 2
    /\ Len(yPapers) = 4
    /\ ypc = "returned"

----------------------------------------------------------------------------
(* Text of titles and DOIs.  A title is a sequence of characters.  A DOI   *)
(* string is a sequence of pieces, each a run of characters that the       *)
(* operations of normalize_doi treat as a whole: a URL prefix, a "doi:"    *)
(* label, a blank, or the DOI proper.                                      *)

\* str.lower() on one character
LowerChar(c) ==
    IF c \in UpperLetters THEN LowerAlphabet[IndexIn(UpperAlphabet, c)] ELSE c

Lower(text) == [i \in 1..Len(text) |-> LowerChar(text[i])]

RECURSIVE CollapseSpaces(_)
\* re.sub(r"\s+", " ", s)
CollapseSpaces(text) ==
    IF Len(text) < 2 THEN text
    ELSE IF text[1] = " " /\ text[2] = " " THEN CollapseSpaces(Tail(text))
    ELSE <<Head(text)>> \o CollapseSpaces(Tail(text))

IsPlain(c) == c \in LowerLetters \cup Digits \cup {" "}

\* utils.normalize_title
normalize_title(title) ==
    SelectSeq(CollapseSpaces(Lower(Strip(title))), IsPlain)

UrlPrefixes == {"https://doi.org/", "http://dx.doi.org/"}

\* str.lower() on one piece of a DOI string
LowerPiece(t) ==
    CASE t = "HTTPS://DOI.ORG/" -> "https://doi.org/"
      [] t = "DOI:"             -> "doi:"
      [] t = "10.1/X"           -> "10.1/x"
      [] OTHER -> t

LowerDoi(d) == [i \in 1..Len(d) |-> LowerPiece(d[i])]

\* a match of https?://(dx\.)?doi\.org/ under re.I
IsUrlPrefix(t) == LowerPiece(t) \in UrlPrefixes

NotUrlPrefix(t) == ~ IsUrlPrefix(t)

\* not an occurrence of the literal "doi:"
NotLabel(t) == t # "doi:"

\* utils_minimal.normalize_doi; <<>> stands for None and for ""
normalize_doi(d) ==
    IF d = <<>> THEN <<>>
    ELSE LET s1 == Strip(d)
             s2 == IF s1 # <<>> /\ IsUrlPrefix(s1[1])
                   THEN SelectSeq(s1, NotUrlPrefix) ELSE s1
             s3 == SelectSeq(s2, NotLabel)
         IN  LowerDoi(Strip(s3))

----------------------------------------------------------------------------
(* Pipeline.build_dataset: the enriched files are read, every record is    *)
(* turned into a row, and the rows are deduplicated.  A record is          *)
(* [id, title, doi, publication_year]; a row keeps the columns the         *)
(* deduplication reads and openalex_id, which tells the rows apart.        *)

\* a falsy publication_year: the row's year is None, NaN in the frame
NoYear == 0

\* None
NoRow == [openalex_id |-> 0]

\* Pipeline._paper_to_row
paper_to_row(paper, journal_key) ==
    IF paper.title = <<>> THEN NoRow
    ELSE [year        |-> paper.publication_year,
          journal_key |-> journal_key,
          title       |-> paper.title,
          doi         |-> normalize_doi(paper.doi),
          openalex_id |-> paper.id]

IsRow(row) == row # NoRow

\* the loop of build_dataset over the records read: `if row: rows.append'
RowsOf(recs) ==
    SelectSeq([i \in 1..Len(recs) |->
                  paper_to_row(recs[i].paper, recs[i].journal_key)], IsRow)

\* the elements of seq whose index is in S, in order
Pick(seq, S) ==
    LET F[i \in 0..Len(seq)] ==
            IF i = 0 THEN <<>>
            ELSE IF i \in S THEN Append(F[i - 1], seq[i]) ELSE F[i - 1]
    IN  F[Len(seq)]

\* a pass that removes one duplicate of each key only, the last
FirstOccurrences_onepass(keys) ==
    {i \in 1..Len(keys) :
        \/ \A j \in 1..(i - 1) : keys[j] # keys[i]
        \/ \E j \in (i + 1)..Len(keys) : keys[j] = keys[i]}

\* keep='first'
FirstOccurrences(keys) ==
    {i \in 1..Len(keys) : \A j \in 1..(i - 1) : keys[j] # keys[i]}

\* DataFrame.drop_duplicates(subset=..., keep='first'), keys[i] being the
\* value of the subset columns in row i
drop_duplicates(frame, keys) == Pick(frame, FirstOccurrences(keys))

\* df['doi'].fillna('').str.lower()
doi_norm(row) == LowerDoi(row.doi)

\* df['title'].fillna('').str.lower()
title_norm(row) == Lower(row.title)

HasDoi(row) == doi_norm(row) # <<>>

HasNoDoi(row) == ~ HasDoi(row)

\* every row taken as a row of every group
GroupRows_all(frame, g) == frame

\* df.groupby(['journal_key', 'year']): the rows of group g
GroupRows(frame, g) ==
    LET InGroup(row) == row.journal_key = g[1] /\ row.year = g[2]
    IN  SelectSeq(frame, InGroup)

\* the title pass run over the rows with a DOI too
WithoutDoi_all(group) == group

\* group[group['doi_norm'] == '']
WithoutDoi(group) == SelectSeq(group, HasNoDoi)

\* the body of the loop over the groups
DedupGroup(group) ==
    LET with_doi    == SelectSeq(group, HasDoi)
        without_doi == WithoutDoi(group)
    IN  drop_duplicates(with_doi,
                        [i \in 1..Len(with_doi) |-> doi_norm(with_doi[i])])
        \o (IF without_doi = <<>> THEN without_doi
            ELSE drop_duplicates(without_doi,
                     [i \in 1..Len(without_doi) |->
                         title_norm(without_doi[i])]))

\* the group keys in the order groupby yields them: sorted
GroupOrder ==
    [i \in 1..(Len(JournalKeys) * Len(Years)) |->
        <<JournalKeys[((i - 1) \div Len(Years)) + 1],
          Years[((i - 1) % Len(Years)) + 1]>>]

RECURSIVE DedupGroups(_, _)
\* `deduped': the groups that have rows, each deduplicated; a row whose
\* year is NaN is in no group
DedupGroups(frame, i) ==
    IF i > Len(GroupOrder) THEN <<>>
    ELSE LET group == GroupRows(frame, GroupOrder[i])
         IN  (IF group = <<>> THEN <<>> ELSE DedupGroup(group))
             \o DedupGroups(frame, i + 1)

\* Pipeline._deduplicate: a frame made from no row has no column, and
\* df['doi'] raises KeyError
deduplicate(frame) ==
    IF frame = <<>> THEN [raised |-> TRUE, df |-> <<>>]
    ELSE LET deduped == DedupGroups(frame, 1)
         IN  [raised |-> FALSE,
              df |-> IF deduped # <<>> THEN deduped ELSE frame]

\* utils.deduplicate_papers: the rows with a DOI deduplicated by DOI over
\* the whole frame, the others by (title_norm, year, journal)
deduplicate_papers(frame) ==
    LET doi_unique == SelectSeq(frame, HasDoi)
        no_doi     == SelectSeq(frame, HasNoDoi)
    IN  drop_duplicates(doi_unique,
                        [i \in 1..Len(doi_unique) |-> doi_norm(doi_unique[i])])
        \o drop_duplicates(no_doi,
               [i \in 1..Len(no_doi) |->
                   <<normalize_title(no_doi[i].title), no_doi[i].year,
                     no_doi[i].journal_key>>])

\* config['processing']['deduplicate']['enabled']
DeduplicateEnabled == TRUE

\* a line that json.loads rejects
Corrupt ==
    [json |-> FALSE, title |-> <<>>, doi |-> <<>>, publication_year |-> NoYear]

\* the record of line l of file f, as json.loads gives it
Record(f, l, line) ==
    [id |-> (f - 1) * MaxLines + l, title |-> line.title, doi |-> line.doi,
     publication_year |-> line.publication_year]

RECURSIVE ReadLines(_, _, _)
\* the loop over the lines of one file: an unparsable line is skipped
ReadLines(file, f, l) ==
    IF l > Len(file.lines) THEN <<>>
    ELSE IF ~ file.lines[l].json THEN ReadLines(file, f, l + 1)
    ELSE <<[journal_key |-> file.dir,
            paper |-> Record(f, l, file.lines[l])]>>
         \o ReadLines(file, f, l + 1)

InLookup(dir) == \E i \in 1..Len(JournalKeys) : JournalKeys[i] = dir

RECURSIVE ReadFiles(_, _, _)
\* the loop over enriched_files, taken in the order `order'; a file of a
\* directory that is no configured journal is passed over
ReadFiles(fs, order, k) ==
    IF k > Len(order) THEN <<>>
    ELSE (IF InLookup(fs[order[k]].dir)
          THEN ReadLines(fs[order[k]], order[k], 1) ELSE <<>>)
         \o ReadFiles(fs, order, k + 1)

\* the orders in which glob may yield n files
GlobOrders(n) ==
    {o \in [1..n -> 1..n] : \A i, j \in 1..n : i # j => o[i] # o[j]}

\* build_dataset up to `Collected ... papers'
Collect ==
    /\ apc \in {"start", "done", "again"}
    /\ \E order \in GlobOrders(Len(files)) :
         /\ input' = ReadFiles(files, order, 1)
         /\ rows' = RowsOf(input')
    /\ apc' = "collected"
    /\ UNCHANGED <<files, df>>
    /\ UNCHANGED <<fileVars, driverVars, httpVars, legacyVars, pageVars, utilVars,
                 batchVars>>

\* df = self._deduplicate(df)
Deduplicate ==
    /\ apc \in {"collected", "done", "again"}
    /\ DeduplicateEnabled
    /\ LET r == deduplicate(rows)
       IN  IF r.raised
           THEN apc' = "failed" /\ UNCHANGED df
           ELSE apc' = "done" /\ df' = r.df
    /\ UNCHANGED <<files, input, rows>>
    /\ UNCHANGED <<fileVars, driverVars, httpVars, legacyVars, pageVars, utilVars,
                 batchVars>>

\* _deduplicate applied to its own output
Reapply ==
    /\ apc = "done"
    /\ df' = deduplicate(df).df
    /\ apc' = "again"
    /\ UNCHANGED <<files, input, rows>>
    /\ UNCHANGED <<fileVars, driverVars, httpVars, legacyVars, pageVars, utilVars,
                 batchVars>>

\* build_dataset.build_and_save: df = deduplicate_papers(df)
DeduplicatePapers ==
    /\ apc = "collected"
    /\ df' = deduplicate_papers(rows)
    /\ apc' = "legacy_done"
    /\ UNCHANGED <<files, input, rows>>
    /\ UNCHANGED <<fileVars, driverVars, httpVars, legacyVars, pageVars, utilVars,
                 batchVars>>

\* deduplicate_papers applied to its own output
ReapplyPapers ==
    /\ apc = "legacy_done"
    /\ df' = deduplicate_papers(df)
    /\ apc' = "legacy_again"
    /\ UNCHANGED <<files, input, rows>>
    /\ UNCHANGED <<fileVars, driverVars, httpVars, legacyVars, pageVars, utilVars,
                 batchVars>>

\* the tables given to the deduplication: at most MaxRows records, each
\* of one of four groups
TitleA    == <<"A", " ", "D">>
Titles    == {TitleA, <<"a", " ", "d">>, <<"A", " ", "D", " ">>}
DoiStrings ==
    {<<"doi:", "10.1/x">>, <<"https://doi.org/", "10.1/X">>,
     <<"DOI:", "10.1/X">>}

TablePapers ==
    {[title |-> TitleA, doi |-> d] : d \in DoiStrings}
    \cup {[title |-> t, doi |-> <<>>] : t \in Titles}

TableGroups ==
    {<<"aer", 2020>>, <<"aer", 2021>>, <<"qje", 2020>>, <<"aer", NoYear>>}

Tables ==
    UNION {[1..n -> TableGroups \X TablePapers] : n \in 0..MaxRows}

Encountered(t) ==
    [i \in 1..Len(t) |->
        [journal_key |-> t[i][1][1],
         paper |-> [id |-> i, title |-> t[i][2].title, doi |-> t[i][2].doi,
                    publication_year |-> t[i][1][2]]]]

InitDedup ==
    /\ files = <<>>
    /\ input \in {Encountered(t) : t \in Tables}
    /\ rows = RowsOf(input)
    /\ df = <<>>
    /\ apc = "collected"
    /\ sources = <<>>
    /\ raw = <<>>
    /\ IdleDriver
    /\ IdleHttp
    /\ IdleLegacy
    /\ IdlePages
    /\ IdleUtil
    /\ IdleBatch

NextDedup == Deduplicate \/ Reapply \/ DeduplicatePapers \/ ReapplyPapers

SpecDedup == InitDedup /\ [][NextDedup]_vars

\* the row is in the table the deduplication gave
Kept(row) == \E k \in 1..Len(df) : df[k] = row

KnownYear(row) == row.year # NoYear

SameGroup(r1, r2) == r1.journal_key = r2.journal_key /\ r1.year = r2.year

RowSet(frame) == {frame[i] : i \in 1..Len(frame)}

\* the record a row was made from
RecordOf(row) ==
    input[CHOOSE i \in 1..Len(input) :
              input[i].paper.id = row.openalex_id].paper

IsProper(t) == t \notin UrlPrefixes \cup {"doi:", " "}

\* the canonical form of a DOI string: lower case, without URL prefix,
\* "doi:" label and blanks
CanonicalDoi(d) == SelectSeq(LowerDoi(d), IsProper)

\* C15: a row is removed only on account of an earlier row of its own
\* (journal_key, year) group; so rows of different groups with the same
\* DOI or the same title are all kept.
DedupScope_C15 ==
    apc = "done" =>
        \A j \in 1..Len(rows) :
            (KnownYear(rows[j]) /\ ~ Kept(rows[j]))
                => \E i \in 1..(j - 1) :
                       SameGroup(rows[i], rows[j]) /\ Kept(rows[i])

\* three records with the same DOI, in two years of one journal and in
\* another journal: all three are kept
Witness_C15 ==
    /\ apc = "done"
    /\ Len(rows) = 3
    /\ Len(df) = 3
    /\ \A i \in 1..3 : HasDoi(rows[i]) /\ doi_norm(rows[i]) = doi_norm(rows[1])
    /\ \A i \in 1..3 : KnownYear(rows[i])
    /\ \E i, j \in 1..3 :
           /\ rows[i].journal_key = rows[j].journal_key
           /\ rows[i].year # rows[j].year
    /\ \E i, j \in 1..3 : rows[i].journal_key # rows[j].journal_key

\* C16: of the rows of one group whose DOI strings have the same canonical
\* form, differing only in letter case, URL prefix or "doi:" label, only
\* the first encountered is kept.
DoiDedup_C16 ==
    apc = "done" =>
        \A i, j \in 1..Len(rows) :
            (/\ i < j
             /\ KnownYear(rows[i])
             /\ SameGroup(rows[i], rows[j])
             /\ RecordOf(rows[i]).doi # <<>>
             /\ CanonicalDoi(RecordOf(rows[i]).doi)
                    = CanonicalDoi(RecordOf(rows[j]).doi))
                => ~ Kept(rows[j])

\* C17: of the rows without DOI of one group whose titles are equal after
\* case folding and whitespace collapsing, only the first encountered is
\* kept.
TitleDedup_C17 ==
    apc = "done" =>
        \A i, j \in 1..Len(rows) :
            (/\ i < j
             /\ KnownYear(rows[i])
             /\ SameGroup(rows[i], rows[j])
             /\ HasNoDoi(rows[i]) /\ HasNoDoi(rows[j])
             /\ normalize_title(rows[i].title)
                    = normalize_title(rows[j].title))
                => ~ Kept(rows[j])

\* C18: a row is removed only on account of an earlier kept row that is on
\* the same side of the DOI partition: a row with a DOI never on account
\* of rows without, a row without a DOI never on account of rows with one.
DoiPartition_C18 ==
    apc \in {"done", "legacy_done"} =>
        \A j \in 1..Len(rows) :
            ((apc = "legacy_done" \/ KnownYear(rows[j])) /\ ~ Kept(rows[j]))
                => \E i \in 1..(j - 1) :
                       /\ HasDoi(rows[i]) = HasDoi(rows[j])
                       /\ Kept(rows[i])

\* a record with a DOI and a record without, of one group and with the
\* same title: both are kept, and a second record without DOI is removed
Witness_C18 ==
    /\ apc = "done"
    /\ Len(rows) = 3
    /\ \A i \in 1..3 : rows[i].journal_key = "aer" /\ rows[i].year = 2020
    /\ \A i \in 1..3 : rows[i].title = TitleA
    /\ HasDoi(rows[1]) /\ HasNoDoi(rows[2]) /\ HasNoDoi(rows[3])
    /\ Kept(rows[1]) /\ Kept(rows[2]) /\ ~ Kept(rows[3])

----------------------------------------------------------------------------
(* build_dataset over the enriched files of the raw directory: at most     *)
(* MaxFiles files of at most MaxLines lines, each in the directory of a    *)
(* configured journal or in another one                                    *)

Dirs == {"aer", "qje", "tmp"}

UrlDoi == <<"https://doi.org/", "10.1/X">>

\* what a line of an enriched file may be: a record, with or without DOI
\* and year, a record without title, or text that is not JSON
FileLines ==
    [json : {TRUE}, title : {TitleA}, doi : {<<>>, UrlDoi},
     publication_year : {2020, NoYear}]
    \cup {[json |-> TRUE, title |-> <<>>, doi |-> <<>>,
           publication_year |-> 2020]}
    \cup {Corrupt}

EnrichedFiles ==
    UNION {[1..n -> [dir : Dirs,
                     lines : UNION {[1..m -> FileLines] : m \in 0..MaxLines}]]
             : n \in 0..MaxFiles}

InitAssemble ==
    /\ files \in EnrichedFiles
    /\ input = <<>>
    /\ rows = <<>>
    /\ df = <<>>
    /\ apc = "start"
    /\ sources = <<>>
    /\ raw = <<>>
    /\ IdleDriver
    /\ IdleHttp
    /\ IdleLegacy
    /\ IdlePages
    /\ IdleUtil
    /\ IdleBatch

NextAssemble == Collect \/ Deduplicate \/ Reapply

SpecAssemble == InitAssemble /\ [][NextAssemble]_vars

\* C20: an assembly of the files an earlier assembly has read gives the
\* same rows in the same order, the same record being kept of each set of
\* duplicates.
Deterministic_C20 ==
    [][(apc = "collected" /\ df # <<>> /\ apc' = "done") => df' = df]_vars

----------------------------------------------------------------------------
(* The utility functions of utils_minimal.py called alone.  uIn.args holds *)
(* the argument of each call in turn, uOut what each call returned.        *)

NoDirs ==
    /\ sources = <<>>
    /\ raw = <<>>
    /\ IdleDriver
    /\ IdleHttp
    /\ IdleLegacy
    /\ IdlePages
    /\ IdleAssembly
    /\ IdleBatch

Pending(fn) == uIn.fn = fn /\ Len(uOut) < Len(uIn.args)

NextArg == uIn.args[Len(uOut) + 1]

UnchangedButOut ==
    UNCHANGED <<uIn, fileVars, driverVars, httpVars, legacyVars, pageVars,
                asmVars, batchVars>>

\* the pieces a DOI string is made of
DoiPieces ==
    {"10.1/x", "10.1/X", "doi:", "DOI:", " ",
     "https://doi.org/", "HTTPS://DOI.ORG/", "http://dx.doi.org/"}

DoiInputs == UNION {[1..n -> DoiPieces] : n \in 0..MaxPieces}

\* the forms of d the normalization is to identify with d: d behind a URL
\* prefix or a "doi:" label in either letter case, and d in another case
UrlForms   == {"https://doi.org/", "HTTPS://DOI.ORG/", "http://dx.doi.org/"}
LabelForms == {"doi:", "DOI:"}

VariantsOf(d) ==
    {<<t>> \o d : t \in UrlForms \cup LabelForms}
        \cup {e \in [1..Len(d) -> DoiPieces] : LowerDoi(e) = LowerDoi(d)}

\* normalize_doi(d), then normalize_doi(a variant of d)
CallNormalizeDoi ==
    /\ Pending("normalize_doi")
    /\ uOut' = Append(uOut, normalize_doi(NextArg))
    /\ UnchangedButOut

\* normalize_doi applied to what the first call returned
NormalizeResult ==
    /\ uIn.fn = "normalize_doi"
    /\ Len(uOut) = Len(uIn.args)
    /\ uOut' = Append(uOut, normalize_doi(uOut[1]))
    /\ UnchangedButOut

InitDoi ==
    /\ \E d \in DoiInputs \ {<<>>} :
          \E e \in VariantsOf(d) :
             uIn = [fn |-> "normalize_doi", args |-> <<d, e>>]
    /\ uOut = <<>>
    /\ NoDirs

NextDoi == CallNormalizeDoi \/ NormalizeResult

SpecDoi == InitDoi /\ [][NextDoi]_vars

\* C21: the normalized form of a DOI string equals the normalized form of
\* its URL-prefixed, "doi:"-labelled and mixed-case variants, in any letter
\* case of the prefix or label, and normalizing the normalized form gives
\* it back
Normalize_C21 ==
    /\ Len(uOut) >= 2 => uOut[2] = uOut[1]
    /\ Len(uOut) >= 3 => uOut[3] = uOut[1]

----------------------------------------------------------------------------
(* reconstruct_abstract.  An inverted index is the sequence of the items   *)
(* of the dict, each [token, positions]; a token is a text, a position a   *)
(* natural number.                                                         *)

\* max(...) of a set of naturals, 0 for none
MaxOf(S) ==
    IF S = {} THEN 0
    ELSE LET x == CHOOSE y \in S : \A z \in S : z <= y IN x

\* every position some item lists
PositionsIn(inverted_index) ==
    UNION {{inverted_index[i].positions[k] :
               k \in 1..Len(inverted_index[i].positions)} :
           i \in 1..Len(inverted_index)}

\* words[p] after the second loop: the token of the last item listing p,
\* "" where no item lists p
WordAt(inverted_index, p) ==
    LET listing == {i \in 1..Len(inverted_index) :
                       \E k \in 1..Len(inverted_index[i].positions) :
                          inverted_index[i].positions[k] = p}
    IN  IF listing = {} THEN <<>>
        ELSE inverted_index[MaxOf(listing)].token

RECURSIVE JoinWords_glued(_, _)
\* a join that puts nothing between the words
JoinWords_glued(words, sep) ==
    IF words = <<>> THEN <<>>
    ELSE Head(words) \o JoinWords_glued(Tail(words), sep)

RECURSIVE JoinWords(_, _)
\* sep.join(words)
JoinWords(words, sep) ==
    IF words = <<>> THEN <<>>
    ELSE IF Len(words) = 1 THEN Head(words)
    ELSE Head(words) \o sep \o JoinWords(Tail(words), sep)

NotEmpty(w) == w # <<>>

reconstruct_abstract(inverted_index) ==
    IF inverted_index = <<>> THEN <<>>
    ELSE LET max_pos == MaxOf(PositionsIn(inverted_index))
             words   == [p \in 1..max_pos + 1 |->
                            WordAt(inverted_index, p - 1)]
         IN  JoinWords(SelectSeq(words, NotEmpty), <<" ">>)

RECURSIVE Split(_)
\* str.split(): the maximal runs of characters that are not whitespace
Split(text) ==
    LET s == LStrip(text)
        n == IF \E i \in 1..Len(s) : s[i] = " "
             THEN (CHOOSE i \in 1..Len(s) :
                      s[i] = " " /\ \A j \in 1..i - 1 : s[j] # " ") - 1
             ELSE Len(s)
    IN  IF s = <<>> THEN <<>>
        ELSE <<SubSeq(s, 1, n)>> \o Split(SubSeq(s, n + 1, Len(s)))

\* the tokens of the indexes tried; 0 stands for a position no item lists
IndexTokens == <<<<"a">>, <<"b">>, <<"a", "b">>, <<>>, <<" ">>, <<"a", " ", "b">>>>

RECURSIVE PositionsOf(_, _, _)
\* the positions p .. Len(a)-1 the assignment a gives to token number k
PositionsOf(a, k, p) ==
    IF p >= Len(a) THEN <<>>
    ELSE (IF a[p + 1] = k THEN <<p>> ELSE <<>>) \o PositionsOf(a, k, p + 1)

RECURSIVE ItemsFrom(_, _)
\* the dict with one item for each token the assignment uses
ItemsFrom(a, k) ==
    IF k > Len(IndexTokens) THEN <<>>
    ELSE (IF PositionsOf(a, k, 0) = <<>> THEN <<>>
          ELSE <<[token |-> IndexTokens[k],
                  positions |-> PositionsOf(a, k, 0)]>>)
         \o ItemsFrom(a, k + 1)

Indexes ==
    {ItemsFrom(a, 1) :
        a \in UNION {[1..n -> 0..Len(IndexTokens)] : n \in 0..MaxWords}}

CallReconstructAbstract ==
    /\ Pending("reconstruct_abstract")
    /\ uOut' = Append(uOut, reconstruct_abstract(NextArg))
    /\ UnchangedButOut

InitAbstract ==
    /\ uIn \in {[fn |-> "reconstruct_abstract", args |-> <<x>>] :
                   x \in Indexes}
    /\ uOut = <<>>
    /\ NoDirs

NextAbstract == CallReconstructAbstract

SpecAbstract == InitAbstract /\ [][NextAbstract]_vars

\* the number of position entries of the index
RECURSIVE NumPositions(_)
NumPositions(inverted_index) ==
    IF inverted_index = <<>> THEN 0
    ELSE Len(Head(inverted_index).positions)
            + NumPositions(Tail(inverted_index))

\* the positions cover 0..N-1 exactly once each
CoversOnce(inverted_index) ==
    LET N == NumPositions(inverted_index)
    IN  PositionsIn(inverted_index) = 0..N - 1

\* the token the index maps to position p
TokenAt(inverted_index, p) ==
    LET i == CHOOSE i \in 1..Len(inverted_index) :
                 \E k \in 1..Len(inverted_index[i].positions) :
                    inverted_index[i].positions[k] = p
    IN  inverted_index[i].token

RoundTrip(inverted_index, text) ==
    LET N == NumPositions(inverted_index)
    IN  /\ Len(Split(text)) = N
        /\ \A p \in 0..N - 1 : Split(text)[p + 1] = TokenAt(inverted_index, p)

Reconstructed == uIn.fn = "reconstruct_abstract" /\ Len(uOut) = 1

\* a token the split gives back whole: not empty and without whitespace
IsWord(token) ==
    token # <<>> /\ \A i \in 1..Len(token) : token[i] # " "

WordsOnly(inverted_index) ==
    \A i \in 1..Len(inverted_index) : IsWord(inverted_index[i].token)

\* C22 as stated: for every inverted index whose positions cover 0..N-1
\* exactly once each, splitting the reconstructed text on whitespace gives
\* N tokens, the token at position p being the one the index maps to p
RoundTrip_C22 ==
    (Reconstructed /\ CoversOnce(uIn.args[1]))
        => RoundTrip(uIn.args[1], uOut[1])

\* C22 amended: the same for the indexes whose tokens are not empty and
\* hold no whitespace
RoundTripWords_C22 ==
    (Reconstructed /\ CoversOnce(uIn.args[1]) /\ WordsOnly(uIn.args[1]))
        => RoundTrip(uIn.args[1], uOut[1])

\* C22 witness: an index of three positions over two words, one listed at
\* two positions, has been reconstructed
Witness_C22 ==
    /\ Reconstructed
    /\ CoversOnce(uIn.args[1]) /\ WordsOnly(uIn.args[1])
    /\ NumPositions(uIn.args[1]) = 3
    /\ Len(uIn.args[1]) = 2
    /\ uOut[1] # <<>>

----------------------------------------------------------------------------
(* extract_jel_from_text called alone on every text of up to MaxText       *)
(* characters over TextChars and on two longer texts.                      *)

TextChars == {"L", "d", "1", " ", "_"}

ClassificationText ==
    <<"C", "l", "a", "s", "s", "i", "f", "i", "c", "a", "t", "i", "o", "n",
      ":", " ", "L", "1", "3", ",", " ", "D", "2", " ", "a", "n", "d", " ",
      "s", "o", "m", "e", "t", "h", "i", "n", "g", " ", "M", "9", "9", "Z">>

RepeatedText ==
    <<"D", "2", " ", "L", "1", "3", " ", "d", "2", " ", "l", "1", "3", " ",
      "D", "2">>

Texts ==
    UNION {[1..n -> TextChars] : n \in 0..MaxText}
        \cup {ClassificationText, RepeatedText}

CallExtractJel ==
    /\ Pending("extract_jel_from_text")
    /\ uOut' = Append(uOut, extract_jel_from_text(NextArg))
    /\ UnchangedButOut

InitExtract ==
    /\ uIn \in {[fn |-> "extract_jel_from_text", args |-> <<t>>] :
                   t \in Texts}
    /\ uOut = <<>>
    /\ NoDirs

NextExtract == CallExtractJel

SpecExtract == InitExtract /\ [][NextExtract]_vars

Extracted == uIn.fn = "extract_jel_from_text" /\ Len(uOut) = 1

\* one letter immediately followed by one or two digits
IsCode(c) ==
    /\ Len(c) \in {2, 3}
    /\ c[1] \in UpperLetters
    /\ \A k \in 2..Len(c) : c[k] \in Digits

\* text[i..j] stands alone: the characters next to it, if any, are not in
\* the class Run
Alone(text, i, j, Run) ==
    /\ i > 1 => text[i - 1] \notin Run
    /\ j < Len(text) => text[j + 1] \notin Run

\* the places where a code stands alone in the upper-cased text, each
\* <<first, last>>
TokensOf(text, Run) ==
    {ij \in (1..Len(text)) \X (1..Len(text)) :
        /\ ij[2] - ij[1] \in {1, 2}
        /\ IsCode(SubSeq(Upper(text), ij[1], ij[2]))
        /\ Alone(Upper(text), ij[1], ij[2], Run)}

CodesOf(text, Run) ==
    {SubSeq(Upper(text), ij[1], ij[2]) : ij \in TokensOf(text, Run)}

FirstPlace(text, c, Run) ==
    MaxOf({ij[1] : ij \in {x \in TokensOf(text, Run) :
        /\ SubSeq(Upper(text), x[1], x[2]) = c
        /\ \A y \in TokensOf(text, Run) :
              SubSeq(Upper(text), y[1], y[2]) = c => x[1] <= y[1]}})

Alphanumeric == UpperLetters \cup LowerLetters \cup Digits
WordChars    == Alphanumeric \cup {"_"}

\* C23: the result holds every matching code of the text exactly once, in
\* the order of the first occurrences; an empty text gives the empty list
Shape_C23 ==
    Extracted =>
        LET text == uIn.args[1]
            res  == uOut[1]
        IN  /\ \A a, b \in 1..Len(res) : a # b => res[a] # res[b]
            /\ {res[a] : a \in 1..Len(res)} = CodesOf(text, WordChars)
            /\ \A a, b \in 1..Len(res) :
                  a < b => FirstPlace(text, res[a], WordChars)
                              < FirstPlace(text, res[b], WordChars)
            /\ text = <<>> => res = <<>>

\* C23 witness: a text where a code occurs again after another code
Witness_C23 ==
    /\ Extracted
    /\ uIn.args[1] = RepeatedText
    /\ uOut[1] = <<<<"D", "2">>, <<"L", "1", "3">>>>

\* C24 as stated: a code is returned if and only if it occurs in the text,
\* compared case-insensitively, as one letter immediately followed by one
\* or two digits and not as part of a longer alphanumeric run
Pattern_C24 ==
    Extracted =>
        {uOut[1][a] : a \in 1..Len(uOut[1])}
            = CodesOf(uIn.args[1], Alphanumeric)

\* C24 amended: the same with the run made of letters, digits and
\* underscores; "Classification: L13, D2 and something M99Z" yields
\* ["L13", "D2"] and a text without such a token yields []
PatternWord_C24 ==
    Extracted =>
        /\ {uOut[1][a] : a \in 1..Len(uOut[1])}
               = CodesOf(uIn.args[1], WordChars)
        /\ uIn.args[1] = ClassificationText
               => uOut[1] = <<<<"L", "1", "3">>, <<"D", "2">>>>
        /\ CodesOf(uIn.args[1], WordChars) = {} => uOut[1] = <<>>

\* C24 witness: the text "Classification: L13, D2 and something M99Z",
\* where M99 is part of the longer run M99Z, has yielded ["L13", "D2"]
Witness_C24 ==
    /\ Extracted
    /\ uIn.args[1] = ClassificationText
    /\ uOut[1] = <<<<"L", "1", "3">>, <<"D", "2">>>>

----------------------------------------------------------------------------
(* safe_cache_path called on a key, the caller writing the cache entry at  *)
(* the path it returned, and safe_cache_path called on the key again.      *)

KeyChars == {"a", "Z", "0", ".", "_", "-", "/", ":", "?", " "}

Keys == UNION {[1..n -> KeyChars] : n \in 0..MaxKey}

\* the class the pattern [^0-9A-Za-z._-] excludes
SafeChars == Digits \cup UpperLetters \cup LowerLetters \cup {".", "_", "-"}

\* a substitution that lets the colon through
Substitute_colon(c) == IF c \in SafeChars \cup {":"} THEN c ELSE "_"

\* re.sub(r"[^0-9A-Za-z._-]", "_", key) on one character
Substitute(c) == IF c \in SafeChars THEN c ELSE "_"

safe_cache_path(key, cache_dir) ==
    [dir |-> cache_dir, name |-> [i \in 1..Len(key) |-> Substitute(key[i])]]

CallSafeCachePath ==
    /\ Pending("safe_cache_path")
    /\ Len(uOut) = 1 => cache # EmptyCache
    /\ uOut' = Append(uOut, safe_cache_path(NextArg, "cache_dir"))
    /\ UnchangedButOut

\* cache_file.write_text(...) of the caller, at the path returned
WriteCacheFile ==
    /\ uIn.fn = "safe_cache_path"
    /\ Len(uOut) = 1
    /\ cache = EmptyCache
    /\ cache' = CachePut(cache, uOut[1], <<"L", "1">>)
    /\ UNCHANGED <<sources, raw, enriched, tail, enrichedExists>>
    /\ UNCHANGED <<driverVars, httpVars, legacyVars, pageVars, asmVars,
                   utilVars, batchVars>>

InitPath ==
    /\ uIn \in {[fn |-> "safe_cache_path", args |-> <<k, k>>] : k \in Keys}
    /\ uOut = <<>>
    /\ NoDirs

NextPath == CallSafeCachePath \/ WriteCacheFile

SpecPath == InitPath /\ [][NextPath]_vars

\* C30: equal keys give equal paths in every state, the mapping has no
\* effect on the cache, every character of the file name is one of
\* [0-9A-Za-z._-] and each other character of the key is replaced by "_"
KeyToPath_C30 ==
    uIn.fn = "safe_cache_path" =>
        /\ \A n \in 1..Len(uOut) :
              LET key  == uIn.args[n]
                  name == uOut[n].name
              IN  /\ Len(name) = Len(key)
                  /\ \A i \in 1..Len(name) :
                        /\ name[i] \in SafeChars
                        /\ key[i] \in SafeChars => name[i] = key[i]
                        /\ key[i] \notin SafeChars => name[i] = "_"
        /\ Len(uOut) = 2 => uOut[2] = uOut[1]
        /\ DOMAIN cache \subseteq {uOut[n] : n \in 1..Len(uOut)}

\* C30 witness: a key holding "/", ":" or "?" was mapped twice, the cache
\* entry having been written in between
Witness_C30 ==
    /\ uIn.fn = "safe_cache_path"
    /\ Len(uOut) = 2
    /\ cache # EmptyCache
    /\ uIn.args[1] = <<"/", ":">>
    /\ uOut[2].name = <<"_", "_">>

----------------------------------------------------------------------------
(* Unreadable lines: the enrichment driver on every raw file, and the      *)
(* collection of build_dataset on enriched files whose lines are a record  *)
(* or text that is not JSON.                                               *)

PlainRecord ==
    [json |-> TRUE, title |-> TitleA, doi |-> <<>>, publication_year |-> 2020]

LineFiles ==
    UNION {[1..n -> [dir : {"aer", "tmp"},
                     lines : UNION {[1..m -> {PlainRecord, Corrupt}]
                                       : m \in 0..MaxLines}]]
             : n \in 0..MaxFiles}

InitLines ==
    /\ files \in LineFiles
    /\ input = <<>>
    /\ rows = <<>>
    /\ df = <<>>
    /\ apc = "start"
    /\ sources = <<>>
    /\ raw = <<>>
    /\ IdleDriver
    /\ IdleHttp
    /\ IdleLegacy
    /\ IdlePages
    /\ IdleUtil
    /\ IdleBatch

SpecLines == (Init \/ InitLines) /\ [][Next \/ Collect]_vars

\* the raw lines that are JSON
Readable == {i \in 1..Len(raw) : raw[i] # "corrupt"}

\* the lines of the enriched files of configured journals that are JSON,
\* each by the id of its record
ReadableIn(fs) ==
    UNION {{(f - 1) * MaxLines + l :
               l \in {k \in 1..Len(fs[f].lines) : fs[f].lines[k].json}} :
           f \in {g \in 1..Len(fs) : InLookup(fs[g].dir)}}

\* C27: an unreadable line of a raw or enriched file is skipped alone:
\* a completed enrichment run has written one line for each readable raw
\* line, in order, and the collection of build_dataset holds one record
\* for each readable line of the enriched files it reads
SkipsAlone_C27 ==
    /\ pc = "done" =>
          /\ Len(enriched) = Cardinality(Readable)
          /\ \A k \in 1..Len(enriched) : enriched[k][1].id \in Readable
          /\ \A k \in 1..Len(enriched) - 1 :
                enriched[k][1].id < enriched[k + 1][1].id
    /\ apc = "collected" =>
          /\ Len(input) = Cardinality(ReadableIn(files))
          /\ {input[k].paper.id : k \in 1..Len(input)} = ReadableIn(files)

\* C27 witness: a run has completed on a raw file with an unreadable line
\* between two records
Witness_C27 ==
    /\ pc = "done"
    /\ raw = <<"full", "corrupt", "nodoi">>
    /\ Len(enriched) = 2

----------------------------------------------------------------------------
(* Pipeline.run_full_pipeline: the constructor, fetch_papers over the      *)
(* configured journals and years, enrich_jel_codes over the raw files and  *)
(* build_dataset.  _fetch_year and _enrich_file are taken by what they     *)
(* return or raise for each (journal, year), which bWorld fixes.           *)

NoRawFiles == [j \in 1..NumJobs |-> <<>>]

NoFilesYet ==
    [raw |-> NoRawFiles, enriched |-> [j \in 1..NumJobs |-> "absent"]]

\* an except clause that lets the error of one year through
CatchesFetchError_not == FALSE

\* fetch_papers: except Exception as e
CatchesFetchError == TRUE

\* Pipeline.__init__
Construct ==
    /\ bpc = "new"
    /\ IF bCfg.missing \in {"file", "progress.log_file"}
       THEN /\ bpc' = "aborted"
            /\ bLog' = Append(bLog, Entry("init", 0, NoFilter, "config_error"))
            /\ UNCHANGED bJob
       ELSE /\ bpc' = "fetch"
            /\ bJob' = 1
            /\ UNCHANGED bLog
    /\ UNCHANGED <<bCfg, bWorld, bFiles, bRun, bStart>>
    /\ UNCHANGED <<fileVars, driverVars, httpVars, legacyVars, pageVars,
                   asmVars, utilVars>>

\* the papers _fetch_year returns for job j in the current run
PapersOf(j) == <<(<<j, bRun>>)>>

\* one iteration of the loops of fetch_papers
FetchJob ==
    /\ bpc = "fetch"
    /\ LET j      == bJob
           filter == PipelineFilter(bCfg.ids[JobJournal(j)],
                                    JournalNames[JobJournal(j)], JobYear(j))
           tried  == IF bWorld[j] = "nothing"
                     THEN Entry("fetch", j, filter, "no_papers")
                     ELSE IF bWorld[j] = "error"
                     THEN Entry("fetch", j, filter, "error")
                     ELSE Entry("fetch", j, filter, "written")
           next   == IF j < NumJobs
                     THEN bpc' = "fetch" /\ bJob' = j + 1
                     ELSE bpc' = "enrich" /\ bJob' = 0
           abort  == bpc' = "aborted" /\ UNCHANGED bJob
       IN  IF bCfg.missing = "journals"
           THEN /\ bLog' = Append(bLog,
                        Entry("fetch", 0, NoFilter, "config_error"))
                /\ abort
                /\ UNCHANGED bFiles
           ELSE IF bFiles.raw[j] # <<>>
           THEN /\ bLog' = Append(bLog, Entry("fetch", j, NoFilter, "skipped"))
                /\ next
                /\ UNCHANGED bFiles
           ELSE IF bCfg.missing = "scraping.max_retries"
           THEN /\ bLog' = Append(bLog,
                        Entry("fetch", j, NoFilter, "config_error"))
                /\ next
                /\ UNCHANGED bFiles
           ELSE /\ bFiles' = IF bWorld[j] \in {"papers", "papers_stuck"}
                             THEN [bFiles EXCEPT !.raw[j] = PapersOf(j)]
                             ELSE bFiles
                /\ IF bWorld[j] = "error" /\ ~ CatchesFetchError
                   THEN bLog' = Append(bLog, tried) /\ abort
                   ELSE IF bCfg.missing = "scraping.rate_limit_delay"
                   THEN /\ bLog' = bLog \o <<tried,
                               Entry("fetch", j, NoFilter, "config_error")>>
                        /\ abort
                   ELSE bLog' = Append(bLog, tried) /\ next
    /\ UNCHANGED <<bCfg, bWorld, bRun, bStart>>
    /\ UNCHANGED <<fileVars, driverVars, httpVars, legacyVars, pageVars,
                   asmVars, utilVars>>

\* raw_files still to come in the loop of enrich_jel_codes
Remaining ==
    {j \in 1..NumJobs :
        /\ bFiles.raw[j] # <<>>
        /\ ~ \E i \in 1..Len(bLog) :
               bLog[i].step = "enrich" /\ bLog[i].job = j}

\* one iteration of the loop of enrich_jel_codes, on whichever raw file
\* glob yields next
EnrichJob ==
    /\ bpc = "enrich"
    /\ \E j \in Remaining :
         IF bFiles.enriched[j] = "full"
         THEN /\ bLog' = Append(bLog, Entry("enrich", j, NoFilter, "skipped"))
              /\ UNCHANGED bFiles
         ELSE IF bCfg.missing = "jel_enrichment.sources"
         THEN /\ bFiles' = [bFiles EXCEPT !.enriched[j] = "empty"]
              /\ bLog' = Append(bLog,
                      Entry("enrich", j, NoFilter, "config_error"))
         ELSE IF bWorld[j] = "papers"
         THEN /\ bFiles' = [bFiles EXCEPT !.enriched[j] = "full"]
              /\ bLog' = Append(bLog, Entry("enrich", j, NoFilter, "enriched"))
         ELSE /\ bFiles' = [bFiles EXCEPT !.enriched[j] = "empty"]
              /\ bLog' = Append(bLog, Entry("enrich", j, NoFilter, "error"))
    /\ UNCHANGED <<bCfg, bWorld, bpc, bJob, bRun, bStart>>
    /\ UNCHANGED <<fileVars, driverVars, httpVars, legacyVars, pageVars,
                   asmVars, utilVars>>

\* the loop of enrich_jel_codes is over: "Enrichment complete!"
EndEnrich ==
    /\ bpc = "enrich"
    /\ Remaining = {}
    /\ bpc' = "build"
    /\ UNCHANGED <<bCfg, bWorld, bJob, bFiles, bLog, bRun, bStart>>
    /\ UNCHANGED <<fileVars, driverVars, httpVars, legacyVars, pageVars,
                   asmVars, utilVars>>

\* build_dataset: with no row collected the frame has no column and
\* _deduplicate raises KeyError
BuildDataset ==
    /\ bpc = "build"
    /\ IF \E j \in 1..NumJobs : bFiles.enriched[j] = "full"
       THEN /\ bpc' = "complete"
            /\ bLog' = Append(bLog, Entry("build", 0, NoFilter, "built"))
       ELSE /\ bpc' = "failed"
            /\ bLog' = Append(bLog, Entry("build", 0, NoFilter, "error"))
    /\ UNCHANGED <<bCfg, bWorld, bJob, bFiles, bRun, bStart>>
    /\ UNCHANGED <<fileVars, driverVars, httpVars, legacyVars, pageVars,
                   asmVars, utilVars>>

\* the pipeline is started again on the same data directory
Rerun ==
    /\ bpc \in {"complete", "failed", "aborted"}
    /\ bRun < MaxRuns
    /\ bRun' = bRun + 1
    /\ bpc' = "new"
    /\ bJob' = 0
    /\ bLog' = <<>>
    /\ bStart' = [bStart EXCEPT !.raw = bFiles.raw]
    /\ UNCHANGED <<bCfg, bWorld, bFiles>>
    /\ UNCHANGED <<fileVars, driverVars, httpVars, legacyVars, pageVars,
                   asmVars, utilVars>>

NoOthers ==
    /\ sources = <<>>
    /\ raw = <<>>
    /\ IdleDriver
    /\ IdleHttp
    /\ IdleLegacy
    /\ IdlePages
    /\ IdleAssembly
    /\ IdleUtil

FirstRun ==
    /\ bpc = "new"
    /\ bJob = 0
    /\ bFiles = NoFilesYet
    /\ bLog = <<>>
    /\ bRun = 1
    /\ bStart = [raw |-> NoRawFiles, legacy |-> <<>>]

InitBatch ==
    /\ bCfg = DefaultConfig
    /\ bWorld \in [1..NumJobs -> Meets]
    /\ FirstRun
    /\ NoOthers

NextBatch ==
    \/ Construct
    \/ FetchJob
    \/ EnrichJob
    \/ EndEnrich
    \/ BuildDataset
    \/ Rerun

\* a started run goes on until it ends or aborts
SpecBatch == InitBatch /\ [][NextBatch]_vars /\ WF_vars(NextBatch)

----------------------------------------------------------------------------
(* The filter of the listing requests, for every configuration of source   *)
(* ids of two journals: in fetch_papers / _fetch_year and in               *)
(* fetch_openalex.main / fetch_and_save.                                   *)

InitFilter ==
    /\ bCfg \in [ids : [1..Len(JournalKeys) -> SourceIds],
                  missing : {"none"}]
    /\ bWorld \in [1..NumJobs -> {"nothing", "papers"}]
    /\ FirstRun
    /\ NoOthers

InitLegacyFilter ==
    /\ lpc = "fetch"
    /\ lJob = 1
    /\ lPage = 0
    /\ lFiles = [j \in 1..MaxJobs |-> 0]
    /\ bCfg \in [ids : [1..Len(JournalKeys) -> SourceIds],
                  missing : {"none"}]
    /\ bWorld = <<>>
    /\ bpc = "off"
    /\ bJob = 0
    /\ bFiles = <<>>
    /\ bLog = <<>>
    /\ bRun = 0
    /\ bStart = <<>>
    /\ sources = <<>>
    /\ raw = <<>>
    /\ IdleDriver
    /\ IdleHttp
    /\ IdlePages
    /\ IdleAssembly
    /\ IdleUtil

NextFilter == NextBatch \/ LegacyFetchPage

SpecFilter == (InitFilter \/ InitLegacyFilter) /\ [][NextFilter]_vars

\* a configured identifier that is not empty and no "<...>" placeholder
IsValidId(id) ==
    id # <<>> /\ ~ (Head(id) = "<" /\ id[Len(id)] = ">")

\* the requests of the run so far that carried a filter
Filtered == {i \in 1..Len(bLog) : bLog[i].filter.kind # "none"}

----------------------------------------------------------------------------
(* Properties of the batch run *)

\* the loops of fetch_papers and of enrich_jel_codes are over
BatchEnded == bpc \in {"build", "complete", "failed"}

Logged(step, j) ==
    \E i \in 1..Len(bLog) : bLog[i].step = step /\ bLog[i].job = j

\* C28: a collection-year whose fetch or whose enrichment fails is passed
\* over and every other one is still attempted: when the batch has ended,
\* every collection-year was taken by the fetch loop and every one that
\* has a raw file by the enrichment loop; and a started batch does end,
\* whatever collection-years fail
BatchCompletes_C28 ==
    /\ [](BatchEnded =>
            \A j \in 1..NumJobs :
               /\ Logged("fetch", j)
               /\ bFiles.raw[j] # <<>> => Logged("enrich", j))
    /\ (bpc = "new" ~> BatchEnded)

\* C28 witness: the batch has ended after a fetch that raised and an
\* enrichment that raised, each followed by one that succeeded
Witness_C28 ==
    /\ BatchEnded
    /\ \E i, k \in 1..Len(bLog) :
          /\ i < k
          /\ bLog[i].step = "fetch" /\ bLog[i].outcome = "error"
          /\ bLog[k].step = "fetch" /\ bLog[k].outcome = "written"
    /\ \E i, k \in 1..Len(bLog) :
          /\ i < k
          /\ bLog[i].step = "enrich" /\ bLog[i].outcome = "error"
          /\ bLog[k].step = "enrich" /\ bLog[k].outcome = "enriched"

----------------------------------------------------------------------------
(* The fetchers run again on the data directory of an earlier run:         *)
(* Pipeline.fetch_papers, and fetch_openalex.main.                         *)

InitRefetchLegacy ==
    /\ lpc = "fetch"
    /\ lJob = 1
    /\ lPage = 0
    /\ lFiles = [j \in 1..MaxJobs |-> 0]
    /\ bCfg = DefaultConfig
    /\ bWorld = <<>>
    /\ bpc = "off"
    /\ bJob = 0
    /\ bFiles = <<>>
    /\ bLog = <<>>
    /\ bRun = 1
    /\ bStart = [raw |-> <<>>, legacy |-> lFiles]
    /\ sources = <<>>
    /\ raw = <<>>
    /\ IdleDriver
    /\ IdleHttp
    /\ IdlePages
    /\ IdleAssembly
    /\ IdleUtil

\* python -m src.fetch_openalex is started again
LegacyRerun ==
    /\ lpc \in {"finished", "aborted"}
    /\ bRun < MaxRuns
    /\ bRun' = bRun + 1
    /\ lpc' = "fetch"
    /\ lJob' = 1
    /\ lPage' = 0
    /\ bLog' = <<>>
    /\ bStart' = [bStart EXCEPT !.legacy = lFiles]
    /\ UNCHANGED <<lFiles, bCfg, bWorld, bpc, bJob, bFiles>>
    /\ UNCHANGED <<fileVars, driverVars, httpVars, pageVars, asmVars, utilVars>>

NextRefetch == NextBatch \/ LegacyFetchPage \/ LegacyRerun

SpecRefetch == (InitBatch \/ InitRefetchLegacy) /\ [][NextRefetch]_vars

\* C29: once the raw file of a (collection, year) pair exists, no later
\* fetch run writes to it: every raw file a run found is as the run found
\* it, in the data directory of the pipeline and in that of the stand-alone
\* fetcher
WrittenOnce_C29 ==
    /\ bpc # "off" =>
          \A j \in 1..NumJobs :
             bStart.raw[j] # <<>> => bFiles.raw[j] = bStart.raw[j]
    /\ lpc # "off" =>
          \A j \in 1..MaxJobs :
             bStart.legacy[j] > 0 => lFiles[j] = bStart.legacy[j]

----------------------------------------------------------------------------
(* A run whose configuration lacks a required file or key.                 *)

\* config.yaml is absent, or one key that a step of the run reads is
InitConfig ==
    /\ bCfg \in [ids : {DefaultIds}, missing : ConfigKeys]
    /\ bWorld \in [1..NumJobs -> Meets]
    /\ FirstRun
    /\ NoOthers

SpecConfig == InitConfig /\ [][NextBatch]_vars

\* the log entries of a configuration error
ConfigErrors == {i \in 1..Len(bLog) : bLog[i].outcome = "config_error"}

\* C26: a missing configuration file or key ends the run where it is
\* noticed: the run is aborted, the error is the last thing the run did (no
\* fetch, enrichment or assembly step follows it), and the enriched file of
\* the collection-year at which it was noticed is not created by it
Fatal_C26 ==
    \A i \in ConfigErrors :
       /\ bpc = "aborted"
       /\ i = Len(bLog)
       /\ (bRun = 1 /\ bLog[i].step = "enrich")
             => bFiles.enriched[bLog[i].job] = "absent"

----------------------------------------------------------------------------
(* label_jel_codes (src/src/utils.py), called with its default flags.  A    *)
(* code is a text, jel_codes a sequence of codes.                          *)

MarketPrefixes == {<<"L", "1">>, <<"L", "4">>, <<"D", "4">>}

FirmPrefixes == {<<"D", "2">>, <<"L", "2">>}

\* a prefix made of the letter alone
CodePrefix_letter(code) == SubSeq(code, 1, 1)

\* re.match(r"^([A-Z])(\d)", code): group(1) + group(2), else code[:2]
CodePrefix(code) ==
    IF Len(code) >= 2 /\ code[1] \in UpperLetters /\ code[2] \in Digits
    THEN <<code[1], code[2]>>
    ELSE SubSeq(code, 1, IF Len(code) < 2 THEN Len(code) ELSE 2)

RECURSIVE LabelLoop(_, _, _, _)
\* for code in jel_codes, from the i-th code on
LabelLoop(jel_codes, i, found_market, found_firm) ==
    IF i > Len(jel_codes)
    THEN IF found_market /\ found_firm THEN "both"
         ELSE IF found_market THEN "market"
         ELSE IF found_firm THEN "firm"
         ELSE "unclear"
    ELSE IF jel_codes[i] = <<>>
    THEN LabelLoop(jel_codes, i + 1, found_market, found_firm)
    ELSE LET prefix == CodePrefix(jel_codes[i])
         IN  LabelLoop(jel_codes, i + 1,
                       found_market \/ prefix \in MarketPrefixes,
                       found_firm \/ prefix \in FirmPrefixes)

label_jel_codes(jel_codes) ==
    IF jel_codes = <<>> THEN "unclear"
    ELSE LabelLoop(jel_codes, 1, FALSE, FALSE)

\* the codes the lists are drawn from: market codes, firm codes, codes of
\* neither kind, a lower-case code, a lone letter and the empty code
JelCodes ==
    {<<"L", "1", "2">>, <<"L", "4">>, <<"D", "4", "3">>,
     <<"D", "2", "1">>, <<"L", "2">>,
     <<"L", "3">>, <<"l", "1", "2">>, <<"D">>, <<>>}

CodeLists == UNION {[1..n -> JelCodes] : n \in 0..MaxCodes}

\* the orders the codes of a list can be given in
Reorderings(codes) ==
    {[i \in 1..Len(codes) |-> codes[p[i]]] :
        p \in {q \in [1..Len(codes) -> 1..Len(codes)] :
                 \A i, k \in 1..Len(codes) : q[i] = q[k] => i = k}}

\* label_jel_codes(codes), then label_jel_codes(the codes in another order)
CallLabelJelCodes ==
    /\ Pending("label_jel_codes")
    /\ uOut' = Append(uOut, label_jel_codes(NextArg))
    /\ UnchangedButOut

InitLabel ==
    /\ \E codes \in CodeLists :
          \E other \in Reorderings(codes) :
             uIn = [fn |-> "label_jel_codes", args |-> <<codes, other>>]
    /\ uOut = <<>>
    /\ NoDirs

NextLabel == CallLabelJelCodes

SpecLabel == InitLabel /\ [][NextLabel]_vars

\* code begins with one of the prefixes
BeginsWith(code, prefixes) ==
    Len(code) >= 2 /\ SubSeq(code, 1, 2) \in prefixes

HasPrefix(codes, prefixes) ==
    \E i \in 1..Len(codes) : BeginsWith(codes[i], prefixes)

\* C31: the label of a list of codes is "both" when it has a code with a
\* market prefix and a code with a firm prefix, "market" when it has only a
\* market prefix, "firm" when it has only a firm prefix and "unclear"
\* otherwise, the empty list included; the same codes in another order get
\* the same label
Label_C31 ==
    uIn.fn = "label_jel_codes" =>
       /\ \A n \in 1..Len(uOut) :
            LET market == HasPrefix(uIn.args[n], MarketPrefixes)
                firm   == HasPrefix(uIn.args[n], FirmPrefixes)
            IN  uOut[n] = IF market /\ firm THEN "both"
                          ELSE IF market THEN "market"
                          ELSE IF firm THEN "firm"
                          ELSE "unclear"
       /\ Len(uOut) = 2 => uOut[2] = uOut[1]

\* C31: a list with a firm code before a market code and the same list with
\* the market code first have both been labelled "both"
Witness_C31 ==
    /\ uIn.fn = "label_jel_codes"
    /\ Len(uOut) = 2
    /\ uIn.args[1] = <<(<<"D", "2", "1">>), (<<"L", "1", "2">>)>>
    /\ uIn.args[2] = <<(<<"L", "1", "2">>), (<<"D", "2", "1">>)>>
    /\ uOut = <<"both", "both">>

----------------------------------------------------------------------------
(* Two driver processes on the same raw file and enriched file.  Each runs  *)
(* the code of the driver; the processor runs one of them at a time, and    *)
(* may leave it for the other between any two of its steps.  Both opened    *)
(* the enriched file for appending, so each write lands at its end.         *)

\* a second process that has not started its run yet
IdleTwin == [NoTwin EXCEPT !.pc = "idle"]

\* the processor leaves the running driver for the other one
Switch ==
    /\ twin.pc # "absent"
    /\ twin' = [pc |-> pc, papers |-> papers, already_done |-> already_done,
                cur |-> cur, srcPos |-> srcPos, out |-> out,
                attempted |-> attempted]
    /\ pc' = twin.pc
    /\ papers' = twin.papers
    /\ already_done' = twin.already_done
    /\ cur' = twin.cur
    /\ srcPos' = twin.srcPos
    /\ out' = twin.out
    /\ attempted' = twin.attempted
    /\ UNCHANGED <<fileVars, httpVars, legacyVars, pageVars, asmVars, utilVars,
                   batchVars>>

\* the raw files two processes are run on: one record, two records, and
\* a record after an unreadable line
TwinFiles ==
    {<<"full">>, <<"full", "nodoi">>, <<"corrupt", "full">>}

\* the configuration of the two processes
TwinSources == <<"crossref">>

InitTwin ==
    /\ sources = TwinSources
    /\ raw \in TwinFiles
    /\ twin = IdleTwin
    /\ enriched = <<>>
    /\ tail = <<>>
    /\ enrichedExists = FALSE
    /\ cache = EmptyCache
    /\ pc = "idle"
    /\ papers = <<>>
    /\ already_done = 0
    /\ cur = 0
    /\ srcPos = 0
    /\ out = NoPaper
    /\ attempted = <<>>
    /\ IdleHttp
    /\ IdleLegacy
    /\ IdlePages
    /\ IdleAssembly
    /\ IdleUtil
    /\ IdleBatch

NextTwin == Next \/ Switch

\* the driver alone, and the driver with a second process beside it
SpecTwin == (Init \/ InitTwin) /\ [][NextTwin]_vars

\* the enriched file holds some raw record twice
HoldsTwice ==
    \E i, k \in 1..Len(enriched) :
       i < k /\ enriched[i][1].id = enriched[k][1].id

\* the enriched file has more lines than the raw file has records
MoreLines == Len(enriched) > NumRecords

\* C32: with a single driver process the enriched file never holds a raw
\* record twice and never has more lines than the raw file has records,
\* whatever the points at which its runs were terminated (with two
\* processes whose steps interleave such a state is reached: TwoDrivers_C32)
SingleDriver_C32 == twin = NoTwin => ~ HoldsTwice /\ ~ MoreLines

\* C32: two processes ran _enrich_file on the same files, neither was
\* terminated, and the enriched file holds a record twice and has more
\* lines than the raw file has records
TwoDrivers_C32 ==
    /\ twin # NoTwin
    /\ pc = "done"
    /\ twin.pc = "done"
    /\ HoldsTwice
    /\ MoreLines

----------------------------------------------------------------------------
(* The delay between the strategy attempts of _enrich_paper                *)

\* attempt i of the current work issued a request
TouchedNetwork(i) == attempted[i].nreq > 0

\* C34: between two consecutive attempts for the same work that both
\* touched the network, the configured delay was slept after the earlier
\* one, whether it returned nothing or raised an error
Delay_C34 ==
    \A i \in 1..(Len(attempted) - 1) :
       TouchedNetwork(i) /\ TouchedNetwork(i + 1) => attempted[i].slept

----------------------------------------------------------------------------
(* The driver on raw files with a line that parses as JSON and is no        *)
(* object (a list, a number, null).                                        *)

ShapeKinds == LineKinds \cup {"notobject"}

ShapeFiles == UNION {[1..n -> ShapeKinds] : n \in 0..MaxRaw}

InitShape ==
    /\ sources = TwinSources
    /\ raw \in ShapeFiles
    /\ IdleDriver
    /\ IdleHttp
    /\ IdleLegacy
    /\ IdlePages
    /\ IdleAssembly
    /\ IdleUtil
    /\ IdleBatch

SpecShape == InitShape /\ [][Next]_vars

\* the records of the raw file that are JSON objects
ObjectRecords == {i \in 1..Len(raw) : raw[i] \in {"full", "nodoi"}}

\* raw record i has its line in the enriched file
IsEnriched(i) == \E k \in 1..Len(enriched) : enriched[k][1].id = i

\* C35: a record of unexpected shape affects only itself: when a run over
\* the file has ended without being terminated, every record of the file
\* that is a JSON object has been enriched
Isolated_C35 ==
    pc \in {"done", "failed"} => \A i \in ObjectRecords : IsEnriched(i)

----------------------------------------------------------------------------
(* robots.txt and the paginated fetcher                                    *)

\* C36: when respect_robots_txt is on and robots.txt disallows the listing
\* URL, _fetch_year issues no listing request, returns an empty result, and
\* fetch_papers writes no raw file for the year
Robots_C36 ==
    (blocked /\ ypc # "off") =>
        /\ pageLog = <<>>
        /\ yPapers = <<>>
        /\ ypc \in {"idle", "returned"}
        /\ ~ WritesRawFile

\* _fetch_year has returned without a request although the listing has
\* works to give
Witness_C36 ==
    /\ blocked
    /\ ypc = "returned"
    /\ pageLog = <<>>
    /\ upstream # <<>>
    /\ upstream[1].results # <<>>

----------------------------------------------------------------------------
(* The record _enrich_paper returns                                        *)

\* the 'source' each strategy puts in its result
StrategyTag(name) == IF name = "ideas_repec" THEN IdeasTag ELSE name

\* C37: on every record _enrich_paper returns, jel_codes is non-empty if
\* and only if jel_source is not "missing", and a jel_source other than
\* "missing" is the tag of a strategy that was attempted for the record and
\* returned those codes
Returned_C37 ==
    pc = "write" =>
        /\ (out.jel_codes # <<>>) <=> (out.jel_source # "missing")
        /\ out.jel_source # "missing" =>
              \E i \in 1..Len(attempted) :
                 /\ StrategyTag(attempted[i].name) = out.jel_source
                 /\ attempted[i].codes = out.jel_codes
                 /\ ~ attempted[i].raised

\* a record returned with the codes of the second strategy attempted, the
\* first having found none
Witness_C37 ==
    /\ pc = "write"
    /\ Len(attempted) = 2
    /\ attempted[1].codes = <<>>
    /\ out.jel_codes # <<>>
    /\ out.jel_source = StrategyTag(attempted[2].name)

----------------------------------------------------------------------------
(* enrich_jel_multi.extract_jel_for_paper.  A work says whether its landing *)
(* page is on aeaweb.org, whether it has a DOI and whether it has concepts; *)
(* `a', `b' and `c' are what the AEA page, the AEA search and Crossref      *)
(* would come to for it: codes, nothing, or an error.                      *)

StrategyOutcomes == {"codes", "nothing", "error"}

MultiWorks ==
    [aea_landing : BOOLEAN, doi : BOOLEAN, concepts : BOOLEAN,
     a : StrategyOutcomes, b : StrategyOutcomes, c : StrategyOutcomes]

\* the codes strategy `tag' extracts
CodesFrom(tag) == <<tag>>

extract_jel_for_paper(work) ==
    IF work.aea_landing /\ work.a = "codes"
    THEN [jel_codes |-> CodesFrom("aea_page"), jel_source |-> "aea_page"]
    ELSE IF work.doi /\ work.b = "codes"
    THEN [jel_codes |-> CodesFrom("aea_search"), jel_source |-> "aea_search"]
    ELSE IF work.doi /\ work.c = "codes"
    THEN [jel_codes |-> CodesFrom("crossref"), jel_source |-> "crossref"]
    ELSE IF work.concepts
    THEN [jel_codes |-> <<>>, jel_source |-> "openalex_concepts"]
    ELSE [jel_codes |-> <<>>, jel_source |-> "missing"]

CallExtractJelForPaper ==
    /\ Pending("extract_jel_for_paper")
    /\ uOut' = Append(uOut, extract_jel_for_paper(NextArg))
    /\ UnchangedButOut

InitMulti ==
    /\ \E work \in MultiWorks :
          uIn = [fn |-> "extract_jel_for_paper", args |-> <<work>>]
    /\ uOut = <<>>
    /\ NoDirs

NextMulti == CallExtractJelForPaper

SpecMulti == InitMulti /\ [][NextMulti]_vars

\* C38: a result of extract_jel_for_paper without JEL codes has jel_source
\* "missing", whether or not the work has OpenAlex concepts
FallThrough_C38 ==
    (uIn.fn = "extract_jel_for_paper" /\ uOut # <<>>) =>
        (uOut[1].jel_codes = <<>> => uOut[1].jel_source = "missing")

----------------------------------------------------------------------------
(* What the assembly keeps of the records it read                          *)

\* the key a row is deduplicated by: doi_norm, or title_norm without a DOI
DedupKey(row) ==
    IF HasDoi(row) THEN <<"doi", doi_norm(row)>>
    ELSE <<"title", title_norm(row)>>

\* the table has a row of the group of `row' with the dedup key of `row'
Represented(row) ==
    \E k \in 1..Len(df) :
       SameGroup(df[k], row) /\ DedupKey(df[k]) = DedupKey(row)

\* C39: every record of an enriched file that has a title, a record whose
\* publication year is unknown included, is represented in the final table
\* by a row of its (collection, year) group with its dedup key
NoLoss_C39 ==
    apc = "done" => \A j \in 1..Len(rows) : Represented(rows[j])

----------------------------------------------------------------------------
(* Termination of the paginated fetcher.  The listings are finite chains:   *)
(* the last page has no next_cursor.  The process keeps running: a step of  *)
(* _fetch_year that can be taken is taken.                                  *)

SpecPagesLive == InitPages /\ [][NextPages]_vars /\ WF_vars(NextPages)

FetchYearEnded == ypc \in {"returned", "raised"}

\* C40: _fetch_year ends, after at most as many page requests as the
\* listing has pages; every page request is one call of http_get, which
\* tries it at most max_retries times, and a page request that exhausts
\* its retries is the last one
Terminates_C40 ==
    /\ [](/\ Len(pageLog) <= Len(upstream)
          /\ \A i \in 1..Len(pageLog) :
                /\ pageLog[i].sent.nreq <= max_retries
                /\ pageLog[i].outcome = "exhausted"
                      => i = Len(pageLog) /\ FetchYearEnded)
    /\ <>FetchYearEnded

\* the fetch ended on the third page request, which exhausted its retries
\* on a listing that had more to give; two requests were needed for a page
Witness_C40 ==
    /\ ypc = "returned"
    /\ Len(upstream) = 3
    /\ Len(pageLog) = 3
    /\ pageLog[3].outcome = "exhausted"
    /\ pageLog[3].sent.nreq = max_retries
    /\ pageLog[1].sent.nreq = 2
====
